---- MODULE Spec2Model ----
(***************************************************************************)
(* xStruct: a schema of field tokens is compiled by the Struct constructor *)
(* into a layout (per field: type, size, offset, isBits, position; and the *)
(* total size in bytes), and toBuffer / toObject convert records to packed *)
(* byte buffers and back.                                                  *)
(*                                                                         *)
(* JavaScript values are modelled as tagged records:                       *)
(*   strings            [k |-> "str", chars |-> <<"U","I","n","t","8">>]   *)
(*   numbers, bigints   [k |-> "number", n |-> i], [k |-> "bigint", ...],  *)
(*                      i an integer in the form of IntVal                 *)
(*   text values        [k |-> "string", s |-> <<code points>>]            *)
(*   plain objects      [k |-> "object", o |-> [name |-> value]]           *)
(*   Struct instances   [k |-> "Struct", size |-> n, schema |-> <<...>>]   *)
(* A JS object with ordered keys (a schema) is a sequence of records with  *)
(* a name field, in insertion order (the order of for..in).                *)
(***************************************************************************)
EXTENDS Integers, Sequences, FiniteSets, TLC

VARIABLES pc, schemaIn, struct, data, buffer, result, calls

vars == <<pc, schemaIn, struct, data, buffer, result, calls>>

-----------------------------------------------------------------------------
(* Bounds of the model.                                                    *)

\* Longest schema (number of fields) enumerated for the layout compiler.
MaxFields == 3

\* Longest text value (in characters) given to a text field.
MaxTextLen == 3

\* Longest buffer of arbitrary bytes given to toObject.
MaxBufLen == 3

\* Number of toBuffer / toObject calls in flight on one layout at a time.
NumCalls == 2

-----------------------------------------------------------------------------
(* Characters and strings.                                                 *)

Digits == <<"0", "1", "2", "3", "4", "5", "6", "7", "8", "9">>

IsDigit(c) == \E i \in 1..Len(Digits) : Digits[i] = c

DigitValue(c) == (CHOOSE i \in 1..Len(Digits) : Digits[i] = c) - 1

\* parseInt(chars, 10) of a non-empty run of decimal digits.
RECURSIVE parseInt(_)
parseInt(chars) ==
    IF chars = <<>> THEN 0
    ELSE 10 * parseInt(SubSeq(chars, 1, Len(chars) - 1)) + DigitValue(chars[Len(chars)])

\* String.prototype.startsWith
startsWith(chars, prefix) ==
    /\ Len(prefix) <= Len(chars)
    /\ SubSeq(chars, 1, Len(prefix)) = prefix

\* String.prototype.includes
includes(chars, part) ==
    \E i \in 1..(Len(chars) - Len(part) + 1) : SubSeq(chars, i, i + Len(part) - 1) = part

JsString(chars) == [k |-> "str", chars |-> chars]

cInt == <<"I", "n", "t">>
cUInt == <<"U">> \o cInt
cBig == <<"B", "i", "g">>
cLE == <<"L", "E">>
cBE == <<"B", "E">>
cInt8 == cInt \o <<"8">>
cUInt8 == cUInt \o <<"8">>
cString == <<"s", "t", "r", "i", "n", "g">>

\* The PrimitiveType union of struct.interface.ts, with the byte sizes of
\* the typeSizes table of parsePrimitiveField.
typeSizes ==
    <<[type |-> cInt8, size |-> 1],
      [type |-> cUInt8, size |-> 1],
      [type |-> cInt \o <<"1", "6">> \o cLE, size |-> 2],
      [type |-> cInt \o <<"1", "6">> \o cBE, size |-> 2],
      [type |-> cUInt \o <<"1", "6">> \o cLE, size |-> 2],
      [type |-> cUInt \o <<"1", "6">> \o cBE, size |-> 2],
      [type |-> cInt \o <<"3", "2">> \o cLE, size |-> 4],
      [type |-> cInt \o <<"3", "2">> \o cBE, size |-> 4],
      [type |-> cUInt \o <<"3", "2">> \o cLE, size |-> 4],
      [type |-> cUInt \o <<"3", "2">> \o cBE, size |-> 4],
      [type |-> cBig \o cInt \o <<"6", "4">> \o cLE, size |-> 8],
      [type |-> cBig \o cInt \o <<"6", "4">> \o cBE, size |-> 8],
      [type |-> cBig \o cUInt \o <<"6", "4">> \o cLE, size |-> 8],
      [type |-> cBig \o cUInt \o <<"6", "4">> \o cBE, size |-> 8]>>

PrimitiveType == {typeSizes[i].type : i \in 1..Len(typeSizes)}

\* The keys the typeSizes object literal inherits from Object.prototype:
\* typeSizes[key] is a function (an object for __proto__), which is truthy.
ObjectPrototype ==
    {<<"c", "o", "n", "s", "t", "r", "u", "c", "t", "o", "r">>,
     <<"_", "_", "p", "r", "o", "t", "o", "_", "_">>,
     <<"h", "a", "s", "O", "w", "n", "P", "r", "o", "p", "e", "r", "t", "y">>,
     <<"i", "s", "P", "r", "o", "t", "o", "t", "y", "p", "e", "O", "f">>,
     <<"p", "r", "o", "p", "e", "r", "t", "y", "I", "s", "E", "n", "u", "m", "e", "r", "a", "b", "l", "e">>,
     <<"t", "o", "L", "o", "c", "a", "l", "e", "S", "t", "r", "i", "n", "g">>,
     <<"t", "o", "S", "t", "r", "i", "n", "g">>,
     <<"v", "a", "l", "u", "e", "O", "f">>,
     <<"_", "_", "d", "e", "f", "i", "n", "e", "G", "e", "t", "t", "e", "r", "_", "_">>,
     <<"_", "_", "d", "e", "f", "i", "n", "e", "S", "e", "t", "t", "e", "r", "_", "_">>,
     <<"_", "_", "l", "o", "o", "k", "u", "p", "G", "e", "t", "t", "e", "r", "_", "_">>,
     <<"_", "_", "l", "o", "o", "k", "u", "p", "S", "e", "t", "t", "e", "r", "_", "_">>}

\* typeSizes[key] for an inherited key, as a value of the language.
Inherited(key) == [k |-> "function", of |-> key]

\* The token "<base>:<n>" of a bitfield.
BitToken(base, n) == JsString(base \o <<":">> \o <<Digits[n + 1]>>)

-----------------------------------------------------------------------------
(* The layout compiler.                                                    *)

IsStruct(v) == v.k = "Struct"

Fail(kind) == [ok |-> FALSE, err |-> kind]

\* /^(Int8|UInt8):(\d+)$/ and parseInt of the second group.
parseBitField(chars) ==
    LET colons == {i \in 1..Len(chars) : chars[i] = ":"}
        at == CHOOSE i \in colons : \A j \in colons : i <= j
        base == SubSeq(chars, 1, at - 1)
        width == SubSeq(chars, at + 1, Len(chars))
        match == /\ colons # {}
                 /\ base \in {cInt8, cUInt8}
                 /\ width # <<>>
                 /\ \A i \in 1..Len(width) : IsDigit(width[i])
    IN  IF ~match THEN Fail("Error")
        ELSE [ok |-> TRUE, type |-> JsString(base), size |-> parseInt(width), isBits |-> TRUE]

\* if (typeSizes[type]): an own key of the table gives its byte size, a
\* key inherited from Object.prototype gives a function (inherited is then
\* set and size is that function), any other string is undefined.
parsePrimitiveField(chars) ==
    IF \E i \in 1..Len(typeSizes) : typeSizes[i].type = chars
    THEN [ok |-> TRUE, type |-> JsString(chars), isBits |-> FALSE,
          size |-> typeSizes[CHOOSE i \in 1..Len(typeSizes) : typeSizes[i].type = chars].size]
    ELSE IF chars \in ObjectPrototype
    THEN [ok |-> TRUE, type |-> JsString(chars), isBits |-> FALSE,
          size |-> Inherited(chars), inherited |-> TRUE]
    ELSE Fail("TypeError")

\* parseField that gives a nested Struct the bytes of its fields without
\* the byte of a bitfield run left open at its end.
parseField_NestedWholeBytes(field) ==
    IF IsStruct(field)
    THEN LET last == field.schema[Len(field.schema)]
             open == Len(field.schema) > 0 /\ last.isBits
         IN  [ok |-> TRUE, type |-> field, size |-> IF open THEN last.offset ELSE field.size]
    ELSE IF field.k = "str"
    THEN IF includes(field.chars, <<":">>)
         THEN parseBitField(field.chars)
         ELSE parsePrimitiveField(field.chars)
    ELSE [ok |-> TRUE, type |-> field.type, size |-> field.size]

\* A Struct is embedded by value with its size; a string token is a bitfield
\* when it has a colon and a primitive otherwise; a { type, size } object is
\* returned as it is (no isBits).
parseField(field) ==
    IF IsStruct(field) THEN [ok |-> TRUE, type |-> field, size |-> field.size]
    ELSE IF field.k = "str"
    THEN IF includes(field.chars, <<":">>)
         THEN parseBitField(field.chars)
         ELSE parsePrimitiveField(field.chars)
    ELSE [ok |-> TRUE, type |-> field.type, size |-> field.size]

\* fieldObject.isBits, undefined (falsy) when the property is absent.
IsBits(fieldObject) == "isBits" \in DOMAIN fieldObject /\ fieldObject.isBits

\* processBitfield without its last statement: the bit cursor stays.
processBitfield_NoAdvance(name, accumulator, field) ==
    LET nextTotalBits == accumulator.bits + field.size
        acc == IF nextTotalBits > 8
               THEN [bits |-> 0, bytes |-> accumulator.bytes + 1]
               ELSE accumulator
    IN  [entry |-> [name |-> name, type |-> field.type, size |-> field.size,
                    isBits |-> TRUE, offset |-> acc.bytes, position |-> acc.bits],
         accumulator |-> acc]

\* processBitfield that closes the byte at nextTotalBits >= 8.
processBitfield_CloseAtEight(name, accumulator, field) ==
    LET nextTotalBits == accumulator.bits + field.size
        acc == IF nextTotalBits >= 8
               THEN [bits |-> 0, bytes |-> accumulator.bytes + 1]
               ELSE accumulator
    IN  [entry |-> [name |-> name, type |-> field.type, size |-> field.size,
                    isBits |-> TRUE, offset |-> acc.bytes, position |-> acc.bits],
         accumulator |-> [bits |-> acc.bits + field.size, bytes |-> acc.bytes]]

\* The schema entry written and the accumulator after the call.
processBitfield(name, accumulator, field) ==
    LET nextTotalBits == accumulator.bits + field.size
        acc == IF nextTotalBits > 8
               THEN [bits |-> 0, bytes |-> accumulator.bytes + 1]
               ELSE accumulator
    IN  [entry |-> [name |-> name, type |-> field.type, size |-> field.size,
                    isBits |-> TRUE, offset |-> acc.bytes, position |-> acc.bits],
         accumulator |-> [bits |-> acc.bits + field.size, bytes |-> acc.bytes]]

\* processField that records the offset after it has advanced the bytes.
processField_OffsetAfter(name, accumulator, field) ==
    LET acc == IF accumulator.bits > 0
               THEN [bits |-> 0, bytes |-> accumulator.bytes + 1]
               ELSE accumulator
    IN  [entry |-> [name |-> name, type |-> field.type, size |-> field.size,
                    isBits |-> FALSE, offset |-> acc.bytes + field.size],
         accumulator |-> [bits |-> 0, bytes |-> acc.bytes + field.size]]

\* processField that leaves an open bitfield run open.
processField_NoClose(name, accumulator, field) ==
    [entry |-> [name |-> name, type |-> field.type, size |-> field.size,
                isBits |-> FALSE, offset |-> accumulator.bytes],
     accumulator |-> [bits |-> 0, bytes |-> accumulator.bytes + field.size]]

\* The body of parseSchema's loop for a field that is not a bitfield.
processField(name, accumulator, field) ==
    LET acc == IF accumulator.bits > 0
               THEN [bits |-> 0, bytes |-> accumulator.bytes + 1]
               ELSE accumulator
    IN  [entry |-> [name |-> name, type |-> field.type, size |-> field.size,
                    isBits |-> FALSE, offset |-> acc.bytes],
         accumulator |-> [bits |-> 0, bytes |-> acc.bytes + field.size]]

\* The last, partly filled byte is not counted.
closeRun_Forgotten(accumulator) == accumulator.bytes

\* The bytes counted after the loop.
closeRun(accumulator) ==
    IF accumulator.bits > 0 THEN accumulator.bytes + 1 ELSE accumulator.bytes

\* accumulator.bytes is a string: a size that is no number has been added
\* to it (concat holds, in order, what += has concatenated).
IsConcat(accumulator) == "concat" \in DOMAIN accumulator

\* fieldObject.size is no number.
HasInheritedSize(fieldObject) == "inherited" \in DOMAIN fieldObject

\* accumulator.bytes as it is stored in an entry or returned.
BytesOf(accumulator) ==
    IF IsConcat(accumulator) THEN [k |-> "string", concat |-> accumulator.concat]
    ELSE accumulator.bytes

\* accumulator.bytes += n, where the sum is a string: n is no number, or
\* accumulator.bytes is a string already.
Concat(accumulator, n) ==
    IF IsConcat(accumulator) THEN [accumulator EXCEPT !.concat = Append(@, [part |-> n])]
    ELSE [bits |-> accumulator.bits, bytes |-> accumulator.bytes,
          concat |-> <<[part |-> accumulator.bytes], [part |-> n]>>]

\* The body of parseSchema's loop, processBitfield included, when += on
\* accumulator.bytes concatenates strings.
processConcat(name, accumulator, field) ==
    LET close == IF IsBits(field) THEN accumulator.bits + field.size > 8
                 ELSE accumulator.bits > 0
        acc == IF close THEN [Concat(accumulator, 1) EXCEPT !.bits = 0] ELSE accumulator
        entry == [name |-> name, type |-> field.type, size |-> field.size,
                  isBits |-> IsBits(field), offset |-> BytesOf(acc)]
    IN  IF IsBits(field)
        THEN [entry |-> entry @@ [position |-> acc.bits],
              accumulator |-> [acc EXCEPT !.bits = @ + field.size]]
        ELSE [entry |-> entry,
              accumulator |-> [Concat(acc, field.size) EXCEPT !.bits = 0]]

\* The statements of parseSchema after the loop, for a string.
closeConcat(accumulator) ==
    BytesOf(IF accumulator.bits > 0 THEN Concat(accumulator, 1) ELSE accumulator)

RECURSIVE parseSchemaFrom(_, _, _, _)
parseSchemaFrom(schema, i, accumulator, entries) ==
    IF i > Len(schema)
    THEN [ok |-> TRUE, schema |-> entries,
          size |-> IF IsConcat(accumulator) THEN closeConcat(accumulator)
                   ELSE closeRun(accumulator)]
    ELSE LET fieldObject == parseField(schema[i].type)
             step == IF IsConcat(accumulator) \/ HasInheritedSize(fieldObject)
                     THEN processConcat(schema[i].name, accumulator, fieldObject)
                     ELSE IF IsBits(fieldObject)
                     THEN processBitfield(schema[i].name, accumulator, fieldObject)
                     ELSE processField(schema[i].name, accumulator, fieldObject)
         IN  IF ~fieldObject.ok THEN fieldObject
             ELSE parseSchemaFrom(schema, i + 1, step.accumulator,
                                  Append(entries, step.entry))

parseSchema(schema) == parseSchemaFrom(schema, 1, [bits |-> 0, bytes |-> 0], <<>>)

\* new Struct(schema): the instance, or the error the constructor throws.
NewStruct(schema) ==
    LET r == parseSchema(schema)
    IN  IF r.ok THEN [ok |-> TRUE, k |-> "Struct", size |-> r.size, schema |-> r.schema]
        ELSE r

\* The instance of a schema that compiles.
StructOf(schema) ==
    LET r == NewStruct(schema)
    IN  [k |-> "Struct", size |-> r.size, schema |-> r.schema]

-----------------------------------------------------------------------------
(* Integers.  A JS number or bigint that holds an integer is kept as the   *)
(* little-endian bytes of its two's complement form, cut after the last    *)
(* byte that differs from the sign fill (0 or 255): every width of field   *)
(* (up to 64 bits) is exact and no arithmetic is done on wide values.      *)

RECURSIVE IntBytes(_)
IntBytes(n) ==
    IF n = 0 \/ n = -1 THEN <<>> ELSE <<n % 256>> \o IntBytes(n \div 256)

IntVal(n) == [neg |-> n < 0, bytes |-> IntBytes(n)]

Fill(v) == IF v.neg THEN 255 ELSE 0

RECURSIVE Pow(_, _)
Pow(b, e) == IF e = 0 THEN 1 ELSE b * Pow(b, e - 1)

RECURSIVE BytesValue(_)
BytesValue(bytes) ==
    IF bytes = <<>> THEN 0 ELSE Head(bytes) + 256 * BytesValue(Tail(bytes))

\* The integer of a value of at most two bytes.
SmallInt(v) == BytesValue(v.bytes) - (IF v.neg THEN Pow(256, Len(v.bytes)) ELSE 0)

IsSmall(v) == Len(v.bytes) <= 2

RECURSIVE Trim(_, _)
Trim(bytes, fill) ==
    IF bytes # <<>> /\ bytes[Len(bytes)] = fill
    THEN Trim(SubSeq(bytes, 1, Len(bytes) - 1), fill)
    ELSE bytes

\* The integer that little-endian bytes hold, read as signed or unsigned.
FromBytes(bytes, signed) ==
    LET neg == signed /\ bytes # <<>> /\ bytes[Len(bytes)] >= 128
    IN  [neg |-> neg, bytes |-> Trim(bytes, IF neg THEN 255 ELSE 0)]

\* min <= v <= max for the bounds of a field of w bytes (Node's checkInt
\* and checkIntBI).
FitsWidth(v, w, signed) ==
    IF signed
    THEN \/ Len(v.bytes) < w
         \/ Len(v.bytes) = w /\ ((v.bytes[w] >= 128) <=> v.neg)
    ELSE ~v.neg /\ Len(v.bytes) <= w

\* The w little-endian bytes of an integer that fits.
ToBytes(v, w) == [i \in 1..w |-> IF i <= Len(v.bytes) THEN v.bytes[i] ELSE Fill(v)]

Reverse(seq) == [i \in 1..Len(seq) |-> seq[Len(seq) + 1 - i]]

Min(a, b) == IF a <= b THEN a ELSE b

Max(a, b) == IF a >= b THEN a ELSE b

-----------------------------------------------------------------------------
(* 32-bit integer operators of JS, on the small integers bitfields use.    *)

\* x << n: the shift count is taken modulo 32.
Shl(x, n) == x * Pow(2, n % 32)

\* x >> n
Shr(x, n) == x \div Pow(2, n % 32)

\* ~x
BitNot(x) == (-x) - 1

\* x & y, on two's complement integers of any sign.
RECURSIVE BitAnd(_, _)
BitAnd(x, y) ==
    IF x = 0 \/ y = 0 THEN 0
    ELSE IF x = -1 THEN y
    ELSE IF y = -1 THEN x
    ELSE ((x % 2) * (y % 2)) + (2 * BitAnd(x \div 2, y \div 2))

\* x | y
BitOr(x, y) == BitNot(BitAnd(BitNot(x), BitNot(y)))

\* BigInt.asIntN(bits, x)
asIntN(bits, x) ==
    LET m == x % Pow(2, bits)
    IN  IF bits > 0 /\ m >= Pow(2, bits - 1) THEN m - Pow(2, bits) ELSE m

-----------------------------------------------------------------------------
(* JS values.                                                              *)

Num(n) == [k |-> "number", n |-> IntVal(n)]

BigIntOf(n) == [k |-> "bigint", n |-> IntVal(n)]

\* A string value of a record: its code points.
Text(s) == [k |-> "string", s |-> s]

\* A plain object: a function from its own keys to their values.
Obj(o) == [k |-> "object", o |-> o]

Bool(b) == [k |-> "boolean", b |-> b]

Null == [k |-> "null"]

Undefined == [k |-> "undefined"]

NaN == [k |-> "number", nan |-> TRUE]

\* typeof v
typeof(v) == IF v.k = "null" THEN "object" ELSE v.k

IsNaN(v) == v.k = "number" /\ "nan" \in DOMAIN v

\* if (v): false for null, undefined, 0, NaN, 0n, "" and false.
Truthy(v) ==
    CASE v.k \in {"null", "undefined"} -> FALSE
      [] v.k = "boolean" -> v.b
      [] v.k = "string" -> v.s # <<>>
      [] v.k \in {"number", "bigint"} -> ~IsNaN(v) /\ v.n # IntVal(0)
      [] OTHER -> TRUE

\* A field that is given although the record has no entry for it.
HasKey_Always(object, name) == TRUE

\* name in object
HasKey(object, name) == name \in DOMAIN object.o

\* object[name]
ValueOf(object, name) == IF name \in DOMAIN object.o THEN object.o[name] ELSE Undefined

-----------------------------------------------------------------------------
(* UTF-8.  The decoder is that of bytes whose lead bytes are below 0xE0    *)
(* (characters of one or two bytes).                                       *)

NUL == 0

\* U+FFFD, which the decoder gives for a byte that starts no character.
Replacement == 65533

Utf8(cp) ==
    IF cp < 128 THEN <<cp>>
    ELSE IF cp < 2048 THEN <<192 + (cp \div 64), 128 + (cp % 64)>>
    ELSE <<224 + (cp \div 4096), 128 + ((cp \div 64) % 64), 128 + (cp % 64)>>

RECURSIVE Utf8Encode(_)
Utf8Encode(s) == IF s = <<>> THEN <<>> ELSE Utf8(Head(s)) \o Utf8Encode(Tail(s))

\* The longest run of whole characters of s whose bytes fit in n bytes:
\* buffer.write never writes part of a character.
RECURSIVE Utf8Prefix(_, _)
Utf8Prefix(s, n) ==
    IF s = <<>> \/ Len(Utf8(Head(s))) > n THEN <<>>
    ELSE Utf8(Head(s)) \o Utf8Prefix(Tail(s), n - Len(Utf8(Head(s))))

\* buffer.toString('utf8')
RECURSIVE Utf8Decode(_)
Utf8Decode(bytes) ==
    IF bytes = <<>> THEN <<>>
    ELSE IF bytes[1] < 128 THEN <<bytes[1]>> \o Utf8Decode(Tail(bytes))
    ELSE IF /\ bytes[1] \in 194..223
            /\ Len(bytes) >= 2
            /\ bytes[2] \in 128..191
    THEN <<(bytes[1] - 192) * 64 + (bytes[2] - 128)>> \o Utf8Decode(Tail(Tail(bytes)))
    ELSE <<Replacement>> \o Utf8Decode(Tail(bytes))

\* A replace that removes every NUL of the string (/\x00+/g).
RECURSIVE TrimNul_Every(_)
TrimNul_Every(s) ==
    IF s = <<>> THEN <<>>
    ELSE IF Head(s) = NUL THEN TrimNul_Every(Tail(s))
    ELSE <<Head(s)>> \o TrimNul_Every(Tail(s))

\* s.replace(/\x00+$/, '')
RECURSIVE TrimNul(_)
TrimNul(s) ==
    IF s # <<>> /\ s[Len(s)] = NUL THEN TrimNul(SubSeq(s, 1, Len(s) - 1)) ELSE s

-----------------------------------------------------------------------------
(* Node's Buffer.                                                          *)

\* Buffer.allocUnsafe(size), the memory it gets having every bit set.
alloc_Unsafe(size) == [i \in 1..size |-> 255]

\* Buffer.alloc(size)
alloc(size) == [i \in 1..size |-> 0]

\* buffer[offset] as an operand of a bit operator: undefined, outside the
\* buffer, is 0 there.
ByteAt(buf, offset) == IF offset + 1 \in 1..Len(buf) THEN buf[offset + 1] ELSE 0

\* buffer[offset] = byte: kept modulo 256, ignored outside the buffer.
SetByte(buf, offset, byte) ==
    IF offset + 1 \in 1..Len(buf) THEN [buf EXCEPT ![offset + 1] = byte % 256] ELSE buf

\* The buffer with bytes written from offset on (they fit).
Splice(buf, offset, bytes) ==
    [i \in 1..Len(buf) |->
        IF i - offset \in 1..Len(bytes) THEN bytes[i - offset] ELSE buf[i]]

\* buffer.subarray(start, end), both clamped to the buffer.
subarray(buf, start, end) == SubSeq(buf, Min(start, Len(buf)) + 1, Min(end, Len(buf)))

\* buffer.set that ignores the offset.
bufferSet_AtStart(buf, source, offset) ==
    IF Len(source) > Len(buf) THEN Fail("RangeError")
    ELSE [ok |-> TRUE, buffer |-> Splice(buf, 0, source)]

\* buffer.set(source, offset)
bufferSet(buf, source, offset) ==
    IF offset + Len(source) > Len(buf) THEN Fail("RangeError")
    ELSE [ok |-> TRUE, buffer |-> Splice(buf, offset, source)]

\* buffer.write that cuts the bytes of the string at length, inside a
\* character if it falls there.
bufferWrite_CutsBytes(buf, s, offset, length) ==
    IF offset > Len(buf) THEN Fail("RangeError")
    ELSE [ok |-> TRUE,
          buffer |-> Splice(buf, offset,
                            SubSeq(Utf8Encode(s), 1,
                                   Min(Len(Utf8Encode(s)), Min(length, Len(buf) - offset))))]

\* buffer.write(string, offset, length)
bufferWrite(buf, s, offset, length) ==
    IF offset > Len(buf) THEN Fail("RangeError")
    ELSE [ok |-> TRUE,
          buffer |-> Splice(buf, offset, Utf8Prefix(s, Min(length, Len(buf) - offset)))]

\* What the name of a write<Type> / read<Type> method says: signedness,
\* byte order and width.
Signed(type) == startsWith(type, cInt) \/ startsWith(type, cBig \o cInt)

LittleEndian(type) == ~includes(type, cBE)

WidthOf(type) == typeSizes[CHOOSE i \in 1..Len(typeSizes) : typeSizes[i].type = type].size

\* buffer.write<Type>(value, offset)
bufferWriteInt(buf, type, value, offset) ==
    IF type \notin PrimitiveType THEN Fail("TypeError")
    ELSE IF IsNaN(value) \/ ~FitsWidth(value.n, WidthOf(type), Signed(type))
            \/ offset + WidthOf(type) > Len(buf)
    THEN Fail("RangeError")
    ELSE LET le == ToBytes(value.n, WidthOf(type))
         IN  [ok |-> TRUE,
              buffer |-> Splice(buf, offset, IF LittleEndian(type) THEN le ELSE Reverse(le))]

\* A read<Type> that takes the bytes beyond the end of the buffer as zero.
bufferReadInt_ZeroFill(buf, type, offset) ==
    IF type \notin PrimitiveType THEN Fail("TypeError")
    ELSE LET bytes == [i \in 1..WidthOf(type) |-> ByteAt(buf, offset + i - 1)]
             le == IF LittleEndian(type) THEN bytes ELSE Reverse(bytes)
         IN  [ok |-> TRUE,
              value |-> [k |-> IF includes(type, cBig) THEN "bigint" ELSE "number",
                         n |-> FromBytes(le, Signed(type))]]

\* buffer.read<Type>(offset)
bufferReadInt(buf, type, offset) ==
    IF type \notin PrimitiveType THEN Fail("TypeError")
    ELSE IF offset + WidthOf(type) > Len(buf) THEN Fail("RangeError")
    ELSE LET bytes == SubSeq(buf, offset + 1, offset + WidthOf(type))
             le == IF LittleEndian(type) THEN bytes ELSE Reverse(bytes)
         IN  [ok |-> TRUE,
              value |-> [k |-> IF includes(type, cBig) THEN "bigint" ELSE "number",
                         n |-> FromBytes(le, Signed(type))]]

-----------------------------------------------------------------------------
(* The codec of a Struct.                                                  *)

\* The expressions a message of the Struct's own code interpolates: the
\* name of a field, a value of the record, field.size, field.type and
\* typeof of a value.
FieldName(name) == [part |-> "fieldName", name |-> name]

Value(v) == [part |-> "value", value |-> v]

FieldSize(n) == [part |-> "field.size", size |-> n]

FieldType(t) == [part |-> "field.type", type |-> t]

TypeOf(v) == [part |-> "typeof", typeof |-> v]

\* An error thrown by the Struct's own code, with the expressions its
\* message interpolates, in order.
Throw(kind, msg) == [ok |-> FALSE, err |-> kind, msg |-> msg]

\* field.position ?? 0
PositionOf(field) == IF "position" \in DOMAIN field THEN field.position ELSE 0

\* (<string> field.type).startsWith('Int')
IsSignedField(field) == startsWith(field.type.chars, cInt)

\* The number a value is in a comparison or a bit operator: an integer, or
\* NaN.  An integer of more than two bytes is beyond every bound it is
\* compared with here and is kept as the nearest integer of that size.
\* (The text values of the model hold no digit, so only "" is a number.)
ToNumber(v) ==
    CASE v.k \in {"number", "bigint"} /\ ~IsNaN(v) ->
            [nan |-> FALSE,
             n |-> IF IsSmall(v.n) THEN SmallInt(v.n)
                   ELSE IF v.n.neg THEN -Pow(256, 2) - 1 ELSE Pow(256, 2)]
      [] v.k = "null" -> [nan |-> FALSE, n |-> 0]
      [] v.k = "boolean" -> [nan |-> FALSE, n |-> IF v.b THEN 1 ELSE 0]
      [] v.k = "string" /\ v.s = <<>> -> [nan |-> FALSE, n |-> 0]
      [] OTHER -> [nan |-> TRUE, n |-> 0]

\* The bound of an unsigned field for every field.
maxBitValue_Unsigned(field) == Shl(1, field.size) - 1

maxBitValue(field) ==
    IF IsSignedField(field) THEN Shl(1, field.size - 1) - 1 ELSE Shl(1, field.size) - 1

\* The least value of an unsigned field for every field.
minBitValue_Zero(field) == 0

minBitValue(field) ==
    IF IsSignedField(field) THEN -Shl(1, field.size - 1) ELSE 0

\* value < minBitValue || value > maxBitValue: false when value is NaN.
OutOfBitRange(field, value) ==
    LET number == ToNumber(value)
    IN  ~number.nan /\ (number.n < minBitValue(field) \/ number.n > maxBitValue(field))

validateBitfieldValue(field, value) ==
    IF OutOfBitRange(field, value)
    THEN Throw("RangeError", <<Value(value), FieldSize(field.size), FieldType(field.type)>>)
    ELSE [ok |-> TRUE]

\* BigInt(value): of an integer number, a bigint, a boolean or "".
ToBigInt(value) ==
    CASE value.k \in {"null", "undefined"} -> Fail("TypeError")
      [] IsNaN(value) -> Fail("RangeError")
      [] ToNumber(value).nan -> Fail("SyntaxError")
      [] OTHER -> [ok |-> TRUE, n |-> ToNumber(value).n]

\* No sign extension.
processValueForBitfield_Unsigned(field, value) == [ok |-> TRUE, value |-> value]

\* Number(BigInt.asIntN(field.size, BigInt(value))) for a signed field, the
\* value itself for an unsigned one.
processValueForBitfield(field, value) ==
    IF IsSignedField(field)
    THEN IF ToBigInt(value).ok
         THEN [ok |-> TRUE, value |-> Num(asIntN(field.size, ToBigInt(value).n))]
         ELSE ToBigInt(value)
    ELSE [ok |-> TRUE, value |-> value]

\* applyBitmask that does not clear the bits of the field first.
applyBitmask_NoClear(currentByte, field, value, bitPosition) ==
    LET mask == Shl(1, field.size) - 1
        shiftedMask == Shl(mask, bitPosition)
        valueShifted == BitAnd(Shl(value, bitPosition), shiftedMask)
    IN  BitOr(currentByte, valueShifted)

\* applyBitmask that does not shift the value to its position.
applyBitmask_NoShift(currentByte, field, value, bitPosition) ==
    LET mask == Shl(1, field.size) - 1
        shiftedMask == Shl(mask, bitPosition)
        cleared == BitAnd(currentByte, BitNot(shiftedMask))
        valueShifted == BitAnd(value, shiftedMask)
    IN  BitOr(cleared, valueShifted)

\* value is the integer of the operand (ToInt32): 0 for NaN.
applyBitmask(currentByte, field, value, bitPosition) ==
    LET mask == Shl(1, field.size) - 1
        shiftedMask == Shl(mask, bitPosition)
        cleared == BitAnd(currentByte, BitNot(shiftedMask))
        valueShifted == BitAnd(Shl(value, bitPosition), shiftedMask)
    IN  BitOr(cleared, valueShifted)

\* The value a signed field stores for a value, narrowed, or the value
\* itself where it cannot be converted.
Narrowed(field, value) ==
    IF processValueForBitfield(field, value).ok
    THEN processValueForBitfield(field, value).value
    ELSE value

\* The integer a value is as an operand of << (0 for NaN).
Operand(value) == IF ToNumber(value).nan THEN 0 ELSE ToNumber(value).n

\* writeBitField that validates the value after the byte is written.
writeBitField_ValidateLast(buf, field, value) ==
    LET valid == validateBitfieldValue(field, value)
        written == SetByte(buf, field.offset,
                           applyBitmask(ByteAt(buf, field.offset), field,
                                        Operand(Narrowed(field, value)), PositionOf(field)))
    IN  IF ~valid.ok THEN [partial |-> written] @@ valid
        ELSE [ok |-> TRUE, buffer |-> written]

\* The buffer after the call, or the error thrown with the buffer as it is
\* when the error is thrown (partial).
writeBitField(buf, field, value) ==
    LET valid == validateBitfieldValue(field, value)
        byteOffset == field.offset
        bitPosition == PositionOf(field)
        processed == processValueForBitfield(field, value)
        operand == IF ToNumber(processed.value).nan THEN 0 ELSE ToNumber(processed.value).n
        currentByte == applyBitmask(ByteAt(buf, byteOffset), field, operand, bitPosition)
    IN  IF ~valid.ok THEN [partial |-> buf] @@ valid
        ELSE IF ~processed.ok THEN [partial |-> buf] @@ processed
        ELSE IF processed.value.k = "bigint" THEN [partial |-> buf] @@ Fail("TypeError")
        ELSE [ok |-> TRUE, buffer |-> SetByte(buf, byteOffset, currentByte)]

writeField(buf, field, value) ==
    IF field.type.chars = cString
    THEN IF typeof(value) # "string"
         THEN Throw("TypeError", <<FieldType(field.type), TypeOf(typeof(value))>>)
         ELSE bufferWrite(buf, value.s, field.offset, field.size)
    ELSE LET isBigIntType == includes(field.type.chars, cBig)
         IN  IF isBigIntType /\ typeof(value) # "bigint"
             THEN Throw("TypeError", <<FieldType(field.type), TypeOf(typeof(value))>>)
             ELSE IF ~isBigIntType /\ typeof(value) # "number"
             THEN Throw("TypeError", <<FieldType(field.type), TypeOf(typeof(value))>>)
             ELSE bufferWriteInt(buf, field.type.chars, value, field.offset)

\* readBitField that masks the byte without shifting it to the position.
readBitField_NoShift(buf, field) ==
    LET currentByte == ByteAt(buf, field.offset)
        mask == Shl(1, field.size) - 1
    IN  processValueForBitfield(field, Num(BitAnd(currentByte, mask)))

readBitField(buf, field) ==
    LET byteOffset == field.offset
        bitPosition == PositionOf(field)
        currentByte == ByteAt(buf, byteOffset)
        mask == Shl(1, field.size) - 1
        value == BitAnd(Shr(currentByte, bitPosition), mask)
    IN  processValueForBitfield(field, Num(value))

readField(buf, field) ==
    LET byteOffset == field.offset
    IN  IF field.type.chars = cString
        THEN [ok |-> TRUE,
              value |-> Text(TrimNul(Utf8Decode(
                            subarray(buf, byteOffset, byteOffset + field.size))))]
        ELSE bufferReadInt(buf, field.type.chars, byteOffset)

\* The loop of toBuffer from field i on.  A failure carries the buffer of
\* this call as it is when the error is thrown (partial).
RECURSIVE toBufferFrom(_, _, _, _)

\* toBuffer that allocates one byte per field of the schema.
toBuffer_AllocPerField(this, record) ==
    IF ~Truthy(record) \/ typeof(record) # "object"
    THEN Throw("Error", <<TypeOf(typeof(record))>>)
    ELSE toBufferFrom(this, record, 1, alloc(Len(this.schema)))

toBuffer(this, record) ==
    IF ~Truthy(record) \/ typeof(record) # "object"
    THEN Throw("Error", <<TypeOf(typeof(record))>>)
    ELSE toBufferFrom(this, record, 1, alloc(this.size))

toBufferFrom(this, record, i, buf) ==
    IF i > Len(this.schema) THEN [ok |-> TRUE, buffer |-> buf]
    ELSE LET field == this.schema[i]
             fieldName == field.name
             value == ValueOf(record, fieldName)
             nested == toBuffer(field.type, value)
             written ==
                 IF IsStruct(field.type)
                 THEN IF Truthy(value)
                      THEN IF nested.ok THEN bufferSet(buf, nested.buffer, field.offset)
                           ELSE nested
                      ELSE Throw("Error", <<FieldName(fieldName), TypeOf(typeof(value))>>)
                 ELSE IF field.isBits THEN writeBitField(buf, field, value)
                 ELSE writeField(buf, field, value)
         IN  IF ~HasKey(record, fieldName) THEN toBufferFrom(this, record, i + 1, buf)
             ELSE IF ~written.ok
             THEN IF IsStruct(field.type) THEN [partial |-> buf] @@ written
                  ELSE written @@ [partial |-> buf]
             ELSE toBufferFrom(this, record, i + 1, written.buffer)

\* An entry that is kept only when its value is truthy.
setEntry_IfTruthy(entries, name, value) ==
    IF Truthy(value) THEN Append(entries, [name |-> name, value |-> value]) ELSE entries

\* result[fieldName] = value
setEntry(entries, name, value) == Append(entries, [name |-> name, value |-> value])

\* The loop of toObject from field i on, entries holding the entries of
\* result for the fields before i.
RECURSIVE toObjectFrom(_, _, _, _)
toObject(this, buf) == toObjectFrom(this, buf, 1, <<>>)

toObjectFrom(this, buf, i, entries) ==
    IF i > Len(this.schema)
    THEN [ok |-> TRUE,
          value |-> Obj([name \in {entries[j].name : j \in 1..Len(entries)} |->
                            entries[CHOOSE j \in 1..Len(entries) :
                                        entries[j].name = name].value])]
    ELSE LET field == this.schema[i]
             read ==
                 IF IsStruct(field.type)
                 THEN toObject(field.type,
                               subarray(buf, field.offset, field.offset + field.size))
                 ELSE IF field.isBits THEN readBitField(buf, field)
                 ELSE readField(buf, field)
         IN  IF ~read.ok THEN read
             ELSE toObjectFrom(this, buf, i + 1, setEntry(entries, field.name, read.value))

-----------------------------------------------------------------------------
(* Schemas enumerated.                                                     *)

Names == <<"a", "b", "c", "d", "e", "f">>

\* The schema { a: tokens[1], b: tokens[2], ... }.
SchemaOf(tokens) == [i \in 1..Len(tokens) |-> [name |-> Names[i], type |-> tokens[i]]]

TextField(n) == [k |-> "obj", type |-> JsString(cString), size |-> n]

BitfieldTokens == {BitToken(base, n) : base \in {cInt8, cUInt8}, n \in 1..8}

\* Signedness plays no part in the layout: every unsigned width, two signed.
LayoutBitfields ==
    {BitToken(cUInt8, n) : n \in 1..8} \cup {BitToken(cInt8, 3), BitToken(cInt8, 6)}

UInt16LE == JsString(cUInt \o <<"1", "6">> \o cLE)
Int16BE == JsString(cInt \o <<"1", "6">> \o cBE)
UInt32BE == JsString(cUInt \o <<"3", "2">> \o cBE)
BigInt64LE == JsString(cBig \o cInt \o <<"6", "4">> \o cLE)

\* A nested layout that ends in a partly filled bitfield byte.
Inner == StructOf(SchemaOf(<<JsString(cUInt8), BitToken(cInt8, 3)>>))

\* One token of every byte size, a text field, a nested layout and the
\* bitfield tokens.
LayoutTokens ==
    LayoutBitfields
        \cup {JsString(cUInt8), Int16BE, UInt32BE, BigInt64LE, TextField(3), Inner}

RECURSIVE TokenSeqs(_, _)
TokenSeqs(tokens, n) ==
    IF n = 0 THEN {<<>>}
    ELSE LET shorter == TokenSeqs(tokens, n - 1)
         IN  shorter \cup {Append(s, t) : s \in {x \in shorter : Len(x) = n - 1}, t \in tokens}

LayoutSchemas == {SchemaOf(s) : s \in TokenSeqs(LayoutTokens, MaxFields)}

-----------------------------------------------------------------------------
(* Inputs enumerated.                                                      *)

\* w bytes, all b but the last (most significant), which is top.
Limit(w, b, top) == [i \in 1..w |-> IF i = w THEN top ELSE b]

\* The least and greatest integer of a field of w bytes and their
\* neighbours outside the range.
MaxInt(w, signed) ==
    [neg |-> FALSE, bytes |-> Limit(w, 255, IF signed THEN 127 ELSE 255)]

AboveMax(w, signed) ==
    [neg |-> FALSE,
     bytes |-> IF signed THEN Limit(w, 0, 128) ELSE Limit(w + 1, 0, 1)]

MinInt(w, signed) ==
    IF signed THEN [neg |-> TRUE, bytes |-> Limit(w, 0, 128)] ELSE IntVal(0)

BelowMin(w, signed) ==
    IF signed THEN [neg |-> TRUE, bytes |-> Limit(w, 255, 127)] ELSE IntVal(-1)

\* The characters of text values: NUL, "A" and "e" with an acute accent
\* (two bytes in UTF-8).
TextChars == {NUL, 65, 233}

RECURSIVE Strings(_)
Strings(n) ==
    IF n = 0 THEN {<<>>}
    ELSE LET shorter == Strings(n - 1)
         IN  shorter \cup {Append(t, c) : t \in {x \in shorter : Len(x) = n - 1},
                                           c \in TextChars}

\* The bytes of arbitrary buffers: 0x00, "A", 0x5A, the two bytes of the
\* accented "e", 0x80 and 0xFF.
TestBytes == {0, 65, 90, 128, 169, 195, 255}

RECURSIVE ByteSeqs(_)
ByteSeqs(n) ==
    IF n = 0 THEN {<<>>}
    ELSE LET shorter == ByteSeqs(n - 1)
         IN  shorter \cup {Append(t, b) : t \in {x \in shorter : Len(x) = n - 1},
                                           b \in TestBytes}

\* The values tried for a bitfield: the bounds of its range, their
\* neighbours outside it, 0 and -1; 5 and 10 when they fit.
BitfieldValues(field) ==
    {Num(n) : n \in {minBitValue(field) - 1, minBitValue(field), -1, 0,
                     maxBitValue(field), maxBitValue(field) + 1}
                    \cup {n \in {5, 10} : n <= maxBitValue(field)}}

\* The values tried for a primitive field, numbers or bigints as its type
\* asks.
PrimitiveValues(field) ==
    LET w == field.size
        signed == Signed(field.type.chars)
        kind == IF includes(field.type.chars, cBig) THEN "bigint" ELSE "number"
    IN  {[k |-> kind, n |-> n] :
            n \in {IntVal(0), MaxInt(w, signed), AboveMax(w, signed), MinInt(w, signed),
                   BelowMin(w, signed)}
                  \cup (IF w > 1 THEN {IntVal(300)} ELSE {})}

RECURSIVE RecordsFrom(_, _)
RecordsOf(this) == {Obj(o) : o \in RecordsFrom(this.schema, 1)}

\* The values tried for a field of a layout.
ValuesFor(field) ==
    IF IsStruct(field.type) THEN RecordsOf(field.type)
    ELSE IF field.isBits THEN BitfieldValues(field)
    ELSE IF field.type.chars = cString THEN {Text(t) : t \in Strings(MaxTextLen)}
    ELSE PrimitiveValues(field)

\* Every choice of a value, or of no entry at all, for the fields from i on.
RecordsFrom(entries, i) ==
    IF i > Len(entries) THEN {<<>>}
    ELSE LET rest == RecordsFrom(entries, i + 1)
         IN  rest \cup {(entries[i].name :> v) @@ r : v \in ValuesFor(entries[i]), r \in rest}

\* The layouts of one bitfield, alone or after an unsigned bitfield that
\* puts it at every position its width allows.
BitSchemas ==
    {SchemaOf(<<t>>) : t \in BitfieldTokens}
        \cup {SchemaOf(<<BitToken(cUInt8, p), BitToken(base, w)>>) :
                 base \in {cInt8, cUInt8}, p \in 1..7, w \in 1..7}

\* Every integer from below the least 8-bit value to above the greatest.
AllBitValues == {Num(n) : n \in (-Pow(2, 7) - 1)..Pow(2, 8)}

\* The records given to the layouts of BitSchemas: every value for the
\* last bitfield, the bitfield before it absent or all ones.
BitRecords ==
    LET last == struct.schema[Len(struct.schema)]
        values == IF Len(struct.schema) = 1 THEN AllBitValues ELSE BitfieldValues(last)
        lasts == {(last.name :> v) : v \in values}
    IN  {Obj(o) : o \in
            lasts \cup {<<>>}
                  \cup (IF Len(struct.schema) = 1 THEN {}
                        ELSE {(struct.schema[1].name :> Num(maxBitValue(struct.schema[1]))) @@ o1 :
                                 o1 \in lasts \cup {<<>>}})}

\* The layouts given values of every runtime kind: a field of each declared
\* kind (text, 64-bit, number, unsigned and signed bitfield, nested layout)
\* after a one-byte field.
KindSchemas ==
    {SchemaOf(<<JsString(cUInt8), t>>) :
        t \in {TextField(2), BigInt64LE, UInt16LE, BitToken(cUInt8, 4), BitToken(cInt8, 4),
               Inner}}

\* A value of every runtime kind, truthy and falsy: null, undefined,
\* booleans, numbers, NaN, bigints, strings and objects.
KindValues ==
    {Null, Undefined, Bool(FALSE), Bool(TRUE), Num(0), Num(5), NaN, BigIntOf(0), BigIntOf(5),
     Text(<<>>), Text(<<65>>), Obj(<<>>), Obj([a |-> Num(1)]), Obj([a |-> Text(<<65>>)])}

\* The records given to the layouts of KindSchemas: a value of every kind
\* for the second field, the first field absent or 1.
KindRecords ==
    LET seconds == {(struct.schema[2].name :> v) : v \in KindValues}
    IN  {Obj(o) : o \in seconds \cup {(struct.schema[1].name :> Num(1)) @@ o2 : o2 \in seconds}}

\* The records given to toBuffer.
DataInputs ==
    IF schemaIn \in BitSchemas THEN BitRecords
    ELSE IF schemaIn \in KindSchemas THEN KindRecords
    ELSE RecordsOf(struct)

\* The buffers of arbitrary bytes given to toObject: every short buffer
\* and, of the length of the layout, every buffer filled with one byte;
\* every byte for a layout of BitSchemas.
BufferInputs ==
    IF schemaIn \in BitSchemas THEN {<<b>> : b \in 0..255}
    ELSE ByteSeqs(Min(struct.size, MaxBufLen))
             \cup {[i \in 1..struct.size |-> b] : b \in TestBytes}

\* Bitfield tokens of a width outside 1..8: 'UInt8:0', 'Int8:0', 'UInt8:9',
\* 'Int8:9', 'UInt8:12' and 'Int8:16'.
WidthTokens ==
    {JsString(chars) : chars \in
        {<<"U", "I", "n", "t", "8", ":", "0">>, <<"I", "n", "t", "8", ":", "0">>,
         <<"U", "I", "n", "t", "8", ":", "9">>, <<"I", "n", "t", "8", ":", "9">>,
         <<"U", "I", "n", "t", "8", ":", "1", "2">>,
         <<"I", "n", "t", "8", ":", "1", "6">>}}

\* Tokens with a colon that are no bitfield token: no width, a width that
\* is no run of digits, a base that is not Int8 or UInt8.
MalformedTokens ==
    {JsString(chars) : chars \in
        {<<"U", "I", "n", "t", "8", ":">>, <<"U", "I", "n", "t", "8", ":", "x">>,
         <<"U", "I", "n", "t", "8", ":", "-", "1">>,
         <<"U", "I", "n", "t", "8", ":", " ", "3">>,
         <<"U", "I", "n", "t", "8", ":", "3", " ">>,
         <<"U", "I", "n", "t", "8", ":", "3", ":", "2">>,
         <<"u", "i", "n", "t", "8", ":", "3">>,
         <<"I", "n", "t", "1", "6", "L", "E", ":", "4">>, <<":", "3">>}}

\* Tokens without a colon that are none of the 14 primitive tokens.
UnsupportedTokens ==
    {JsString(chars) : chars \in
        {<<>>, <<"i", "n", "t", "8">>, <<"I", "n", "t", "1", "6">>,
         <<"U", "I", "n", "t", "6", "4", "L", "E">>,
         <<"B", "i", "g", "I", "n", "t", "6", "4">>,
         <<"F", "l", "o", "a", "t", "L", "E">>, <<"s", "t", "r", "i", "n", "g">>,
         <<"U", "I", "n", "t", "8", " ">>}}

\* Tokens that are keys of Object.prototype.
InheritedTokens ==
    {JsString(chars) : chars \in
        {<<"c", "o", "n", "s", "t", "r", "u", "c", "t", "o", "r">>,
         <<"t", "o", "S", "t", "r", "i", "n", "g">>,
         <<"v", "a", "l", "u", "e", "O", "f">>,
         <<"_", "_", "p", "r", "o", "t", "o", "_", "_">>}}

\* The string tokens given to the constructor: the bitfield tokens of every
\* width from 1 to 8, the 14 primitive tokens, and the tokens above.
StringTokens ==
    BitfieldTokens \cup {JsString(chars) : chars \in PrimitiveType} \cup WidthTokens
        \cup MalformedTokens \cup UnsupportedTokens \cup InheritedTokens

\* A schema of one string token, alone, or before or after a one-byte
\* field or a bitfield of three bits.
TokenSchemas ==
    LET others == {JsString(cUInt8), BitToken(cUInt8, 3)}
    IN  {SchemaOf(<<t>>) : t \in StringTokens}
            \cup {SchemaOf(<<t, o>>) : t \in StringTokens, o \in others}
            \cup {SchemaOf(<<o, t>>) : t \in StringTokens, o \in others}

\* The layouts of the codec.
CodecSchemas ==
    {SchemaOf(tokens) : tokens \in
        {<<BitToken(cUInt8, 4), BitToken(cUInt8, 4), UInt16LE>>,
         <<BitToken(cInt8, 4), BitToken(cUInt8, 3), BitToken(cInt8, 3)>>,
         <<TextField(3), Int16BE, BitToken(cInt8, 8)>>,
         <<BitToken(cUInt8, 3), Inner, BitToken(cUInt8, 5)>>,
         <<UInt32BE, BigInt64LE>>,
         <<JsString(cInt8), TextField(2)>>}}

-----------------------------------------------------------------------------
(* The state machine.                                                      *)

\* calls holds the toBuffer / toObject calls that run side by side on the
\* Struct, each with its own input, position in the loop over the schema
\* and buffer or result object.
\* pc is "new" before the constructor has run, "ready" when no call is in
\* hand, "encoded" / "decoded" when toBuffer / toObject has returned or
\* thrown (result), and "failed" when the constructor has thrown.
InitWith(schemas) ==
    /\ pc = "new"
    /\ schemaIn \in schemas
    /\ struct = Undefined
    /\ data = Undefined
    /\ buffer = <<>>
    /\ result = Undefined
    /\ calls = [c \in 1..NumCalls |-> [st |-> "idle"]]

\* constructor(schema)
Construct ==
    /\ pc = "new"
    /\ LET s == NewStruct(schemaIn)
       IN  IF s.ok
           THEN /\ struct' = [k |-> "Struct", size |-> s.size, schema |-> s.schema]
                /\ pc' = "ready"
                /\ result' = Undefined
           ELSE /\ struct' = Undefined
                /\ pc' = "failed"
                /\ result' = s
    /\ UNCHANGED <<schemaIn, data, buffer, calls>>

\* toBuffer that stores the default of field.position in the schema
\* (field.position ??= 0).
ToBuffer_StoresPosition ==
    /\ pc = "ready"
    /\ \E record \in DataInputs :
          /\ data' = record
          /\ result' = toBuffer(struct, record)
          /\ buffer' = IF result'.ok THEN result'.buffer ELSE <<>>
    /\ pc' = "encoded"
    /\ struct' = [struct EXCEPT !.schema =
                      [i \in 1..Len(struct.schema) |->
                          struct.schema[i] @@ [position |-> 0]]]
    /\ UNCHANGED <<schemaIn, calls>>

\* struct.toBuffer(record): buffer is the buffer returned, if any.
ToBuffer ==
    /\ pc = "ready"
    /\ \E record \in DataInputs :
          /\ data' = record
          /\ result' = toBuffer(struct, record)
          /\ buffer' = IF result'.ok THEN result'.buffer ELSE <<>>
    /\ pc' = "encoded"
    /\ UNCHANGED <<schemaIn, struct, calls>>

\* struct.toObject(buf) of arbitrary bytes.
ToObject ==
    /\ pc = "ready"
    /\ \E buf \in BufferInputs :
          /\ buffer' = buf
          /\ result' = toObject(struct, buf)
    /\ pc' = "decoded"
    /\ UNCHANGED <<schemaIn, struct, data, calls>>

\* struct.toObject(buffer) of the buffer toBuffer has just returned: data
\* stays the record that was encoded.
ToObjectOfBuffer ==
    /\ pc = "encoded"
    /\ result.ok
    /\ result' = toObject(struct, buffer)
    /\ pc' = "decoded"
    /\ UNCHANGED <<schemaIn, struct, data, buffer, calls>>

\* The caller drops the result of the last call; the Struct is ready for
\* the next one.
Return ==
    /\ pc \in {"encoded", "decoded"}
    /\ pc' = "ready"
    /\ data' = Undefined
    /\ buffer' = <<>>
    /\ result' = Undefined
    /\ UNCHANGED <<schemaIn, struct, calls>>

Init == InitWith(CodecSchemas)

Next == Construct \/ ToBuffer \/ ToObject \/ ToObjectOfBuffer \/ Return

Spec == Init /\ [][Next]_vars

InitBits == InitWith(BitSchemas)

SpecBits == InitBits /\ [][Next]_vars

\* applyBitmask on its own: every byte, every width and position of a
\* bitfield inside one byte, every value the width holds.  struct holds the
\* field and bitPosition, data the value, buffer the byte.
MaskFields ==
    {[size |-> size, position |-> position] :
         size \in 1..8, position \in 0..7}

InitMask ==
    /\ pc = "mask"
    /\ schemaIn = Undefined
    /\ struct \in {f \in MaskFields : f.position + f.size <= 8}
    /\ data \in 0..(Pow(2, struct.size) - 1)
    /\ buffer \in {<<currentByte>> : currentByte \in 0..255}
    /\ result = Undefined
    /\ calls = [c \in 1..NumCalls |-> [st |-> "idle"]]

\* applyBitmask(currentByte, field, value, bitPosition)
ApplyBitmask ==
    /\ pc = "mask"
    /\ pc' = "masked"
    /\ result' = applyBitmask(buffer[1], struct, data, struct.position)
    /\ UNCHANGED <<schemaIn, struct, data, buffer, calls>>

NextMask == ApplyBitmask

SpecMask == InitMask /\ [][NextMask]_vars

InitKinds == InitWith(KindSchemas)

SpecKinds == InitKinds /\ [][Next]_vars

InitLayout == InitWith(LayoutSchemas)

NextLayout == Construct

SpecLayout == InitLayout /\ [][NextLayout]_vars

InitTokens == InitWith(TokenSchemas)

SpecTokens == InitTokens /\ [][NextLayout]_vars

-----------------------------------------------------------------------------
(* Calls that run side by side on one Struct.  A call takes one step per   *)
(* field of the schema; the steps of different calls interleave freely.    *)

\* The layouts used by several calls at a time: bitfields that share a
\* byte before a two-byte field, and a nested layout between bitfields.
CallSchemas ==
    {SchemaOf(tokens) : tokens \in
        {<<BitToken(cUInt8, 4), BitToken(cUInt8, 4), UInt16LE>>,
         <<BitToken(cUInt8, 3), Inner, BitToken(cUInt8, 5)>>}}

\* The names of the fields of a layout.
FieldNames(this) == {this.schema[i].name : i \in 1..Len(this.schema)}

\* The field of a layout with a given name.
FieldOf(this, name) ==
    this.schema[CHOOSE i \in 1..Len(this.schema) : this.schema[i].name = name]

\* The record that gives every field of a layout its greatest value, or
\* its least; above makes the value of the last field one too great.
RECURSIVE ExtremeRecord(_, _, _)
ExtremeRecord(this, top, above) ==
    Obj([name \in FieldNames(this) |->
            LET field == FieldOf(this, name)
                last == above /\ name = this.schema[Len(this.schema)].name
            IN  IF IsStruct(field.type) THEN ExtremeRecord(field.type, top, FALSE)
                ELSE IF field.isBits
                THEN Num((IF top THEN maxBitValue(field) ELSE minBitValue(field))
                             + (IF last THEN 1 ELSE 0))
                ELSE IF field.type.chars = cString THEN Text(<<65>>)
                ELSE [k |-> IF includes(field.type.chars, cBig) THEN "bigint" ELSE "number",
                      n |-> IF last THEN AboveMax(field.size, Signed(field.type.chars))
                            ELSE IF top THEN MaxInt(field.size, Signed(field.type.chars))
                            ELSE MinInt(field.size, Signed(field.type.chars))]])

\* The records given to the calls: every field at its greatest value, at
\* its least, the last field out of range, only the first field, and no
\* field at all.
CallRecords ==
    {ExtremeRecord(struct, TRUE, FALSE), ExtremeRecord(struct, FALSE, FALSE),
     ExtremeRecord(struct, TRUE, TRUE),
     Obj((struct.schema[1].name :> Num(1))), Obj(<<>>)}

\* The buffers given to the calls: one byte, and the size of the layout
\* filled with 0xFF or 0x5A.
CallBuffers == {<<255>>} \cup {[i \in 1..struct.size |-> b] : b \in {90, 255}}

\* The layout with field i alone: the loops of toBuffer and toObject over
\* it make the iteration for that field.
OnlyField(this, i) == [this EXCEPT !.schema = <<this.schema[i]>>]

\* toBuffer that takes the buffer of a toBuffer call in flight, if there
\* is one, instead of allocating its own.
CallToBuffer_SharedBuffer(c) ==
    /\ pc = "ready"
    /\ calls[c].st = "idle"
    /\ \E record \in CallRecords :
          LET others == {d \in 1..NumCalls : calls[d].st = "running" /\ calls[d].op = "toBuffer"}
              buf == IF others = {} THEN alloc(struct.size)
                     ELSE calls[CHOOSE d \in others : TRUE].buffer
          IN  calls' = [calls EXCEPT ![c] =
                           [st |-> "running", op |-> "toBuffer", data |-> record, i |-> 1,
                            buffer |-> buf]]
    /\ UNCHANGED <<pc, schemaIn, struct, data, buffer, result>>

\* Call c enters toBuffer: its buffer is allocated and data is tested.
CallToBuffer(c) ==
    /\ pc = "ready"
    /\ calls[c].st = "idle"
    /\ \E record \in CallRecords :
          calls' = [calls EXCEPT ![c] =
                       IF ~Truthy(record) \/ typeof(record) # "object"
                       THEN [st |-> "done", op |-> "toBuffer", data |-> record,
                             result |-> Throw("Error", <<TypeOf(typeof(record))>>)]
                       ELSE [st |-> "running", op |-> "toBuffer", data |-> record, i |-> 1,
                             buffer |-> alloc(struct.size)]]
    /\ UNCHANGED <<pc, schemaIn, struct, data, buffer, result>>

\* Call c enters toObject: its result object is empty.
CallToObject(c) ==
    /\ pc = "ready"
    /\ calls[c].st = "idle"
    /\ \E buf \in CallBuffers :
          calls' = [calls EXCEPT ![c] =
                       [st |-> "running", op |-> "toObject", buffer |-> buf, i |-> 1,
                        entries |-> <<>>]]
    /\ UNCHANGED <<pc, schemaIn, struct, data, buffer, result>>

\* One iteration of the loop of call c, or its return after the last one.
\* An error thrown in the iteration ends the call.
StepCall(c) ==
    /\ calls[c].st = "running"
    /\ LET call == calls[c]
           finished == call.i > Len(struct.schema)
           written == toBufferFrom(OnlyField(struct, call.i), call.data, 1, call.buffer)
           read == toObjectFrom(OnlyField(struct, call.i), call.buffer, 1, <<>>)
           name == struct.schema[call.i].name
       IN  calls' = [calls EXCEPT ![c] =
               IF call.op = "toBuffer"
               THEN IF finished
                    THEN [st |-> "done", op |-> call.op, data |-> call.data,
                          result |-> [ok |-> TRUE, buffer |-> call.buffer]]
                    ELSE IF ~written.ok
                    THEN [st |-> "done", op |-> call.op, data |-> call.data, result |-> written]
                    ELSE [call EXCEPT !.i = @ + 1, !.buffer = written.buffer]
               ELSE IF finished
                    THEN [st |-> "done", op |-> call.op, buffer |-> call.buffer,
                          result |-> toObjectFrom(struct, call.buffer, call.i, call.entries)]
                    ELSE IF ~read.ok
                    THEN [st |-> "done", op |-> call.op, buffer |-> call.buffer, result |-> read]
                    ELSE [call EXCEPT !.i = @ + 1,
                                      !.entries = setEntry(@, name, ValueOf(read.value, name))]]
    /\ UNCHANGED <<pc, schemaIn, struct, data, buffer, result>>

InitCalls == InitWith(CallSchemas)

NextCalls ==
    \/ Construct
    \/ \E c \in 1..NumCalls : CallToBuffer(c) \/ CallToObject(c) \/ StepCall(c)

SpecCalls == InitCalls /\ [][NextCalls]_vars

-----------------------------------------------------------------------------
(* Properties of the compiled layout.                                      *)

Compiled == pc = "ready"

Entries == struct.schema

EntryIndexes == 1..Len(Entries)

\* The bytes a field occupies: its size in bytes, or the one byte that holds
\* a bitfield.
ByteRange(f) ==
    IF f.isBits THEN {f.offset} ELSE f.offset..(f.offset + f.size - 1)

\* The bits of its byte a bitfield occupies.
BitRange(f) == f.position..(f.position + f.size - 1)

RECURSIVE SumOf(_)
SumOf(sizes) == IF sizes = <<>> THEN 0 ELSE Head(sizes) + SumOf(Tail(sizes))

\* The byte sizes of the fields that are not bitfields, in schema order.
ByteSizes(entries) ==
    [i \in 1..Len(entries) |-> IF entries[i].isBits THEN 0 ELSE entries[i].size]

\* The tokens of the schema given to the constructor.
TokensIn == [i \in 1..Len(schemaIn) |-> schemaIn[i].type]

\* C5: in a compiled layout any two distinct fields have disjoint byte
\* ranges, or are bitfields of one byte with disjoint bit ranges.
C5_NoOverlap ==
    Compiled =>
        \A i, j \in EntryIndexes :
            i # j =>
                \/ ByteRange(Entries[i]) \cap ByteRange(Entries[j]) = {}
                \/ /\ Entries[i].isBits
                   /\ Entries[j].isBits
                   /\ Entries[i].offset = Entries[j].offset
                   /\ BitRange(Entries[i]) \cap BitRange(Entries[j]) = {}

\* Three bitfields, two of them packed in one byte, and a field of several
\* bytes have been compiled.
C5_Witness ==
    /\ Compiled
    /\ Len(Entries) = 3
    /\ \E i, j \in EntryIndexes :
           /\ i # j
           /\ Entries[i].isBits
           /\ Entries[j].isBits
           /\ Entries[i].offset = Entries[j].offset
    /\ \E i \in EntryIndexes : ~Entries[i].isBits /\ Entries[i].size > 1

\* C6: a bitfield never spans two bytes: its position is in 0..7 and
\* position + size <= 8; a bitfield that follows a bitfield continues its
\* byte when the two fit in 8 bits (a run of exactly 8 shares one byte) and
\* otherwise starts at position 0 of the next byte; widths 3, 4, 3 are
\* placed at (0, 0), (0, 3), (1, 0).
C6_BitfieldInOneByte ==
    Compiled =>
        /\ \A i \in EntryIndexes :
               Entries[i].isBits =>
                   /\ Entries[i].position \in 0..7
                   /\ Entries[i].position + Entries[i].size <= 8
        /\ \A i \in EntryIndexes :
               (i > 1 /\ Entries[i].isBits /\ Entries[i - 1].isBits) =>
                   LET prev == Entries[i - 1]
                       used == prev.position + prev.size
                   IN  IF used + Entries[i].size > 8
                       THEN /\ Entries[i].offset = prev.offset + 1
                            /\ Entries[i].position = 0
                       ELSE /\ Entries[i].offset = prev.offset
                            /\ Entries[i].position = used
        /\ TokensIn = <<BitToken(cUInt8, 3), BitToken(cUInt8, 4), BitToken(cUInt8, 3)>> =>
               /\ <<Entries[1].offset, Entries[1].position>> = <<0, 0>>
               /\ <<Entries[2].offset, Entries[2].position>> = <<0, 3>>
               /\ <<Entries[3].offset, Entries[3].position>> = <<1, 0>>

\* Widths 3, 4, 3 have been compiled.
C6_Witness ==
    /\ Compiled
    /\ TokensIn = <<BitToken(cUInt8, 3), BitToken(cUInt8, 4), BitToken(cUInt8, 3)>>

\* A run of exactly 8 bits shares one byte and the next bitfield starts the
\* next byte.
C6_WitnessFullByte ==
    /\ Compiled
    /\ Len(Entries) = 3
    /\ \A i \in EntryIndexes : Entries[i].isBits
    /\ Entries[1].size + Entries[2].size = 8
    /\ Entries[2].offset = 0
    /\ Entries[3].offset = 1

\* C7: a field that is not a bitfield and follows a bitfield starts at the
\* byte after the bitfield's byte; a bitfield that follows it starts at
\* position 0 of the byte after the field; no such field has a bitfield's
\* byte inside its byte range.
C7_FieldAfterBitfieldRun ==
    Compiled =>
        /\ \A i \in EntryIndexes :
               (i > 1 /\ ~Entries[i].isBits /\ Entries[i - 1].isBits) =>
                   Entries[i].offset = Entries[i - 1].offset + 1
        /\ \A i \in EntryIndexes :
               (i > 1 /\ Entries[i].isBits /\ ~Entries[i - 1].isBits) =>
                   /\ Entries[i].offset = Entries[i - 1].offset + Entries[i - 1].size
                   /\ Entries[i].position = 0
        /\ \A i, j \in EntryIndexes :
               (~Entries[i].isBits /\ Entries[j].isBits) =>
                   Entries[j].offset \notin ByteRange(Entries[i])

\* A bitfield, then a field of several bytes, then a bitfield again.
C7_Witness ==
    /\ Compiled
    /\ Len(Entries) = 3
    /\ Entries[1].isBits
    /\ ~Entries[2].isBits
    /\ Entries[2].size > 1
    /\ Entries[3].isBits

\* C8: the size of the layout is the sum of the byte sizes of the fields
\* that are not bitfields plus one byte for every byte that holds packed
\* bitfields, a partly filled byte counting as a whole byte.
C8_SizeAdditivity ==
    Compiled =>
        struct.size =
            SumOf(ByteSizes(Entries))
                + Cardinality({Entries[i].offset : i \in {j \in EntryIndexes : Entries[j].isBits}})

\* Bitfields in two bytes, the last byte partly filled, and a field that is
\* not a bitfield.
C8_Witness ==
    /\ Compiled
    /\ Len(Entries) = 3
    /\ ~Entries[1].isBits
    /\ Entries[1].size > 0
    /\ Entries[2].isBits
    /\ Entries[3].isBits
    /\ Entries[3].offset = Entries[2].offset + 1
    /\ Entries[3].size < 8

-----------------------------------------------------------------------------
(* Properties of the codec.                                                *)

Encoded == pc = "encoded"

Decoded == pc = "decoded"

\* toObject has decoded the buffer that toBuffer returned for data.
RoundTrip == Decoded /\ data # Undefined

\* lo <= n <= hi for the bounds of a bitfield of w bits.
InBitRange(w, signed, n) ==
    IF signed THEN -Pow(2, w - 1) <= n /\ n <= Pow(2, w - 1) - 1
    ELSE 0 <= n /\ n <= Pow(2, w) - 1

\* A value is in range for a field: an integer number within the bounds of
\* the width (a bigint for a 64-bit field), a text whose UTF-8 form fits
\* the declared size, a record that populates every field of a nested
\* layout with values in range.
RECURSIVE InRange(_, _)
Populated(this, record) ==
    /\ record.k = "object"
    /\ DOMAIN record.o = FieldNames(this)
    /\ \A name \in FieldNames(this) : InRange(FieldOf(this, name), record.o[name])

InRange(field, value) ==
    IF IsStruct(field.type) THEN Populated(field.type, value)
    ELSE IF field.isBits
    THEN /\ value.k = "number"
         /\ ~IsNaN(value)
         /\ IsSmall(value.n)
         /\ InBitRange(field.size, field.type.chars = cInt8, SmallInt(value.n))
    ELSE IF field.type.chars = cString
    THEN value.k = "string" /\ Len(Utf8Encode(value.s)) <= field.size
    ELSE /\ value.k = (IF includes(field.type.chars, cBig) THEN "bigint" ELSE "number")
         /\ ~IsNaN(value)
         /\ FitsWidth(value.n, field.size, Signed(field.type.chars))

\* No text of the record, at any depth, ends with a NUL character.
RECURSIVE NoTrailingNul(_, _)
NoTrailingNul(this, record) ==
    \A name \in FieldNames(this) :
        LET field == FieldOf(this, name)
            value == record.o[name]
        IN  IF IsStruct(field.type) THEN NoTrailingNul(field.type, value)
            ELSE (~field.isBits /\ field.type.chars = cString) =>
                     (value.s = <<>> \/ value.s[Len(value.s)] # NUL)

\* C1 as stated: toObject(toBuffer(record)) = record for every record that
\* populates all fields with values in range.
C1_RoundTripAnyText ==
    (RoundTrip /\ Populated(struct, data)) => (result.ok /\ result.value = data)

\* C1, amended: toObject(toBuffer(record)) = record for every record that
\* populates all fields with values in range and whose texts do not end
\* with a NUL character.
C1_RoundTrip ==
    (RoundTrip /\ Populated(struct, data) /\ NoTrailingNul(struct, data)) =>
        (result.ok /\ result.value = data)

\* A record with a negative signed bitfield and one with a text of two
\* characters, one of them of two bytes, have made the round trip.
C1_Witness ==
    /\ RoundTrip
    /\ Populated(struct, data)
    /\ NoTrailingNul(struct, data)
    /\ \E name \in FieldNames(struct) :
          \/ /\ FieldOf(struct, name).isBits
             /\ data.o[name] = Num(-1)
          \/ /\ ~IsStruct(FieldOf(struct, name).type)
             /\ FieldOf(struct, name).type.chars = cString
             /\ Len(data.o[name].s) = 2
             /\ Len(Utf8Encode(data.o[name].s)) = 3

\* C2: the buffer toBuffer returns has exactly the size of the layout.
C2_BufferLength ==
    (Encoded /\ result.ok) => Len(result.buffer) = struct.size

\* toBuffer has returned for a record that omits a field of a layout with
\* a nested field.
C2_Witness ==
    /\ Encoded
    /\ result.ok
    /\ struct.size > 0
    /\ \E name \in FieldNames(struct) : IsStruct(FieldOf(struct, name).type)
    /\ DOMAIN data.o # FieldNames(struct)
    /\ DOMAIN data.o # {}

\* The buffer with the bytes of a field, or the bits of a bitfield, zero.
ZeroSpan(buf, field) ==
    IF field.isBits
    THEN SetByte(buf, field.offset,
                 BitAnd(ByteAt(buf, field.offset),
                        BitNot(Shl(Pow(2, field.size) - 1, field.position))))
    ELSE Splice(buf, field.offset, alloc(field.size))

\* The record without one of its entries.
Without(record, name) == Obj([n \in DOMAIN record.o \ {name} |-> record.o[n]])

RECURSIVE FullRecord(_, _)
FullRecord(this, record) ==
    /\ record.k = "object"
    /\ DOMAIN record.o = FieldNames(this)
    /\ \A name \in FieldNames(this) :
           IsStruct(FieldOf(this, name).type) =>
               FullRecord(FieldOf(this, name).type, record.o[name])

\* C4: toObject of a buffer that is not shorter than the layout returns,
\* and the record it returns has exactly the field names of the schema as
\* keys, nested fields included, whatever the bytes and whatever record
\* was encoded.
C4_EveryFieldDecoded ==
    Decoded =>
        /\ Len(buffer) >= struct.size => result.ok
        /\ result.ok => FullRecord(struct, result.value)

\* The buffer of a record without entries, for a layout with a nested
\* field, has been decoded.
C4_Witness ==
    /\ RoundTrip
    /\ result.ok
    /\ data.o = <<>>
    /\ \E name \in FieldNames(struct) : IsStruct(FieldOf(struct, name).type)

C9_Schema == SchemaOf(<<BitToken(cUInt8, 4), BitToken(cUInt8, 4), UInt16LE>>)

C9_Record == Obj([a |-> Num(10), b |-> Num(5), c |-> Num(300)])

C9_Bytes == <<90, 44, 1>>

\* C9: { a: 'UInt8:4', b: 'UInt8:4', c: 'UInt16LE' } has size 3, the
\* record { a: 10, b: 5, c: 300 } is encoded as 0x5A 0x2C 0x01 and those
\* bytes are decoded as that record.
C9_ConcreteScenario ==
    schemaIn = C9_Schema =>
        /\ pc # "new" => pc # "failed" /\ struct.size = 3
        /\ (Encoded /\ data = C9_Record) => (result.ok /\ result.buffer = C9_Bytes)
        /\ (Decoded /\ buffer = C9_Bytes) => (result.ok /\ result.value = C9_Record)

\* The record of the scenario has been encoded and its buffer decoded.
C9_Witness ==
    /\ schemaIn = C9_Schema
    /\ RoundTrip
    /\ data = C9_Record
    /\ buffer = C9_Bytes

\* The last bitfield of a layout of one or two bitfields.
LastField == struct.schema[Len(struct.schema)]

\* The record { a: n }.
OnlyA(n) == Obj([a |-> Num(n)])

\* C10: toBuffer accepts an integer for a bitfield of w bits if and only if
\* it is in 0 .. 2^w - 1 (UInt8) or in -2^(w-1) .. 2^(w-1) - 1 (Int8), and
\* throws RangeError otherwise; 4 bits unsigned accept 15 and reject 16,
\* 4 bits signed accept 7 and -8 and reject 8 and -9.
C10_RangeCheck ==
    Encoded =>
        /\ LastField.name \in DOMAIN data.o =>
               LET n == SmallInt(data.o[LastField.name].n)
               IN  IF InBitRange(LastField.size, LastField.type.chars = cInt8, n)
                   THEN result.ok
                   ELSE ~result.ok /\ result.err = "RangeError"
        /\ (TokensIn = <<BitToken(cUInt8, 4)>> /\ data = OnlyA(15)) => result.ok
        /\ (TokensIn = <<BitToken(cUInt8, 4)>> /\ data = OnlyA(16)) => ~result.ok
        /\ (TokensIn = <<BitToken(cInt8, 4)>> /\ data \in {OnlyA(7), OnlyA(-8)}) => result.ok
        /\ (TokensIn = <<BitToken(cInt8, 4)>> /\ data \in {OnlyA(8), OnlyA(-9)}) => ~result.ok

\* 16 has been rejected for a 4-bit unsigned bitfield.
C10_Witness ==
    /\ Encoded
    /\ TokensIn = <<BitToken(cUInt8, 4)>>
    /\ data = OnlyA(16)
    /\ ~result.ok
    /\ result.err = "RangeError"

-----------------------------------------------------------------------------
(* Errors of toBuffer.                                                     *)

\* The message of the error thrown interpolates the expression part.
Mentions(part) == \E j \in 1..Len(result.msg) : result.msg[j] = part

\* toBuffer has thrown the RangeError of validateBitfieldValue.
BitfieldRejected ==
    /\ Encoded
    /\ ~result.ok
    /\ result.err = "RangeError"
    /\ "msg" \in DOMAIN result

\* The first field of the layout, in schema order, whose value toBuffer
\* does not take.
FirstRejected ==
    CHOOSE i \in 1..Len(struct.schema) :
        LET try(j) == toBufferFrom(struct, Obj((struct.schema[j].name :>
                          ValueOf(data, struct.schema[j].name))), j, alloc(struct.size))
        IN  /\ HasKey(data, struct.schema[i].name)
            /\ ~try(i).ok
            /\ \A j \in 1..(i - 1) : HasKey(data, struct.schema[j].name) => try(j).ok

\* C11: the RangeError toBuffer raises for an out-of-range bitfield value
\* names the offending field (its name in the schema), the declared width
\* and the rejected value.
C11_RangeErrorNamesField ==
    BitfieldRejected =>
        LET field == struct.schema[FirstRejected]
        IN  /\ Mentions(FieldName(field.name))
            /\ Mentions(FieldSize(field.size))
            /\ Mentions(Value(ValueOf(data, field.name)))

\* What the message of the RangeError does name: the rejected value, the
\* declared width and the type of the field (Int8 or UInt8).
C11_RangeErrorNamesType ==
    BitfieldRejected =>
        LET field == struct.schema[FirstRejected]
        IN  result.msg = <<Value(ValueOf(data, field.name)), FieldSize(field.size),
                           FieldType(field.type)>>

\* 16 has been rejected for the 4-bit unsigned bitfield a.
C11_Witness ==
    /\ BitfieldRejected
    /\ TokensIn = <<BitToken(cUInt8, 4)>>
    /\ data = OnlyA(16)

\* The second field of a layout of KindSchemas, which is given the values
\* of every kind, and the value the record has for it.
Given == struct.schema[2]

GivenValue == ValueOf(data, Given.name)

\* A record of a nested layout: an object.  (Null, numbers, strings and
\* booleans are not.)
IsRecord(v) == v.k = "object"

\* toBuffer has been called with a value that is no record for the nested
\* field of the layout.
NestedMismatch ==
    /\ Encoded
    /\ IsStruct(Given.type)
    /\ ~IsRecord(GivenValue)

\* C12: a value of a nested-layout field that is present but is no record
\* (null, a number, a string, a boolean, truthy or falsy) makes toBuffer
\* fail with an error that names that field of the parent layout.
C12_NestedMismatchNamesField ==
    NestedMismatch =>
        /\ ~result.ok
        /\ "msg" \in DOMAIN result
        /\ Mentions(FieldName(Given.name))

\* What the code does: every such value makes toBuffer fail with an Error;
\* the error names the field when the value is falsy, and is the nested
\* layout's own error, which names no field, when it is truthy.
C12_NestedMismatchFails ==
    NestedMismatch =>
        /\ ~result.ok
        /\ result.err = "Error"
        /\ IF Truthy(GivenValue)
           THEN result.msg = <<TypeOf(typeof(GivenValue))>>
           ELSE result.msg = <<FieldName(Given.name), TypeOf(typeof(GivenValue))>>

\* The number 5 has been given for the nested field.
C12_Witness ==
    /\ NestedMismatch
    /\ GivenValue = Num(5)
    /\ ~result.ok

\* The runtime kind of a value is not the one the field declares: a string
\* for a text field, a bigint for a 64-bit field, a number for any other
\* primitive field and for a bitfield.
WrongKind(field, value) ==
    IF field.isBits THEN typeof(value) # "number"
    ELSE IF field.type.chars = cString THEN typeof(value) # "string"
    ELSE IF includes(field.type.chars, cBig) THEN typeof(value) # "bigint"
    ELSE typeof(value) # "number"

\* toBuffer has been called with a value of the wrong kind for a field
\* that is not a nested layout.
KindMismatch ==
    /\ Encoded
    /\ ~IsStruct(Given.type)
    /\ HasKey(data, Given.name)
    /\ WrongKind(Given, GivenValue)

\* C13: toBuffer raises a type error whenever the value of a present field
\* has the wrong runtime kind for its declared kind (text, 64-bit, other
\* primitive, bitfield), and the error identifies the name of the field.
C13_TypeMismatch ==
    KindMismatch =>
        /\ ~result.ok
        /\ result.err = "TypeError"
        /\ "msg" \in DOMAIN result
        /\ Mentions(FieldName(Given.name))

\* What the code does for a text or primitive field: a TypeError whose
\* message names the type of the field and the kind received.
C13_PrimitiveMismatch ==
    (KindMismatch /\ ~Given.isBits) =>
        /\ ~result.ok
        /\ result.err = "TypeError"
        /\ result.msg = <<FieldType(Given.type), TypeOf(typeof(GivenValue))>>

\* What the code does for a bitfield: the kind is not looked at.  An
\* unsigned bitfield takes null, undefined, booleans, strings and objects as the
\* integer the bit operators make of them.
C13_BitfieldUnchecked ==
    (KindMismatch /\ Given.isBits /\ ~IsSignedField(Given) /\ typeof(GivenValue) # "bigint")
        => result.ok

\* The string "A" has been given for the unsigned bitfield and toBuffer
\* has returned a buffer.
C13_Witness ==
    /\ KindMismatch
    /\ Given.isBits
    /\ GivenValue = Text(<<65>>)
    /\ result.ok

-----------------------------------------------------------------------------
(* Errors of the constructor.                                              *)

\* The constructor has returned or thrown.
Constructed == pc \in {"ready", "failed"}

\* The string tokens of the schema given to the constructor.
TokenChars == {schemaIn[i].type.chars : i \in {j \in 1..Len(schemaIn) : schemaIn[j].type.k = "str"}}

\* <Int8|UInt8>:<n> with n in 1..8.
IsBitfieldToken(chars) ==
    \E base \in {cInt8, cUInt8}, n \in 1..8 : chars = base \o <<":">> \o <<Digits[n + 1]>>

\* C14: the constructor fails with an error for every bitfield token (a
\* string token with a colon) that does not match <Int8|UInt8>:<n> with n
\* in 1..8; 'UInt8:0', 'UInt8:9' and 'Int8:16' are rejected.
C14_BitfieldTokenRejected ==
    Constructed =>
        /\ (\E chars \in TokenChars : includes(chars, <<":">>) /\ ~IsBitfieldToken(chars))
               => (pc = "failed" /\ ~result.ok)
        /\ \A t \in {BitToken(cUInt8, 0), BitToken(cUInt8, 9), JsString(cInt8 \o <<":", "1", "6">>)} :
               t.chars \in TokenChars => pc = "failed"

\* What the code does: a token with a colon is rejected, with an Error, if
\* and only if it is not Int8 or UInt8, a colon and a run of one or more
\* digits; the run of digits is the width, whatever its value.
C14_BitfieldTokenGrammar ==
    (Constructed /\ Len(schemaIn) = 1 /\ \E chars \in TokenChars : includes(chars, <<":">>)) =>
        LET chars == schemaIn[1].type.chars
            Digits_(base) == SubSeq(chars, Len(base) + 2, Len(chars))
            Matches(base) ==
                /\ startsWith(chars, base \o <<":">>)
                /\ Digits_(base) # <<>>
                /\ \A i \in 1..Len(Digits_(base)) : IsDigit(Digits_(base)[i])
        IN  IF \E base \in {cInt8, cUInt8} : Matches(base)
            THEN /\ pc = "ready"
                 /\ struct.schema[1].isBits
                 /\ \E base \in {cInt8, cUInt8} :
                       /\ Matches(base)
                       /\ struct.schema[1].type = JsString(base)
                       /\ struct.schema[1].size = parseInt(Digits_(base))
            ELSE pc = "failed" /\ result.err = "Error"

\* The layout { a: 'UInt8:9' } has been constructed, with a bitfield of
\* nine bits.
C14_Witness ==
    /\ pc = "ready"
    /\ TokensIn = <<BitToken(cUInt8, 9)>>
    /\ struct.schema[1].size = 9

\* The byte size the name of a primitive token says: 8 bits are 1 byte, 16
\* are 2, 32 are 4 and 64 are 8.
SizeInName(chars) ==
    IF includes(chars, <<"6", "4">>) THEN 8
    ELSE IF includes(chars, <<"3", "2">>) THEN 4
    ELSE IF includes(chars, <<"1", "6">>) THEN 2
    ELSE 1

\* C15: the constructor fails with an error for every string token without
\* a colon that is none of the 14 primitive tokens, and accepts each of the
\* 14 with the byte size 1, 2, 4 or 8 of its width.
C15_PrimitiveTokenRejected ==
    Constructed =>
        /\ (\E chars \in TokenChars : ~includes(chars, <<":">>) /\ chars \notin PrimitiveType)
               => (pc = "failed" /\ ~result.ok)
        /\ (Len(schemaIn) = 1 /\ TokenChars \subseteq PrimitiveType) =>
               /\ pc = "ready"
               /\ ~struct.schema[1].isBits
               /\ struct.schema[1].size = SizeInName(schemaIn[1].type.chars)
               /\ struct.size = SizeInName(schemaIn[1].type.chars)

\* What the code does: the 14 primitive tokens are accepted with their
\* sizes; a token that is a key of Object.prototype is accepted too, with
\* a size that is no number; every other token without a colon is rejected
\* with a TypeError.
C15_PrimitiveTokenLookup ==
    (Constructed /\ Len(schemaIn) = 1 /\ ~includes(schemaIn[1].type.chars, <<":">>)) =>
        LET chars == schemaIn[1].type.chars
        IN  IF chars \in PrimitiveType
            THEN /\ pc = "ready"
                 /\ ~struct.schema[1].isBits
                 /\ struct.schema[1].size = SizeInName(chars)
                 /\ struct.size = SizeInName(chars)
            ELSE IF chars \in ObjectPrototype
            THEN /\ pc = "ready"
                 /\ struct.schema[1].size = Inherited(chars)
                 /\ struct.size.k = "string"
            ELSE pc = "failed" /\ result.err = "TypeError"

\* The layout { a: 'constructor' } has been constructed.
C15_Witness ==
    /\ pc = "ready"
    /\ TokensIn = <<JsString(<<"c", "o", "n", "s", "t", "r", "u", "c", "t", "o", "r">>)>>

-----------------------------------------------------------------------------
(* Nested layouts.                                                         *)

\* The nested fields of the layout.
NestedFields == {i \in 1..Len(struct.schema) : IsStruct(struct.schema[i].type)}

\* The bytes [offset, offset + size) of a buffer that holds them all.
Slice(buf, field) == [i \in 1..field.size |-> buf[field.offset + i]]

\* C16: for a nested field f of layout L at offset o and a record whose
\* value at f is r, the bytes [o, o + L.size) of the parent's toBuffer are
\* L.toBuffer(r) byte for byte, and the parent's toObject decodes f as
\* L.toObject of exactly that byte range.
C16_NestedComposition ==
    \A i \in IF Encoded \/ Decoded THEN NestedFields ELSE {} :
        LET f == struct.schema[i]
        IN  /\ (Encoded /\ result.ok /\ HasKey(data, f.name)) =>
                   /\ toBuffer(f.type, ValueOf(data, f.name)).ok
                   /\ Slice(result.buffer, f) = toBuffer(f.type, ValueOf(data, f.name)).buffer
            /\ (Decoded /\ result.ok /\ Len(buffer) >= struct.size) =>
                   /\ toObject(f.type, Slice(buffer, f)).ok
                   /\ ValueOf(result.value, f.name) = toObject(f.type, Slice(buffer, f)).value

\* A record whose nested record is encoded to bytes that are not all zero,
\* between two bitfields of the parent that are not zero, has made the
\* round trip.
C16_Witness ==
    /\ RoundTrip
    /\ result.ok
    /\ \E i \in NestedFields :
          /\ i > 1
          /\ i < Len(struct.schema)
          /\ HasKey(data, struct.schema[i].name)
          /\ Slice(buffer, struct.schema[i]) \notin {alloc(struct.schema[i].size)}
          /\ buffer[1] # 0
          /\ buffer[Len(buffer)] # 0
          /\ Slice(buffer, struct.schema[i])[struct.schema[i].size] # 0

-----------------------------------------------------------------------------
(* The layout after construction.                                          *)

\* C17: once the constructor has returned, no toBuffer or toObject call,
\* successful or failing, changes the layout: its size and the type, size,
\* offset, isBits and position of every field, those of a nested layout
\* included, stay what the constructor compiled.
C17_LayoutImmutable ==
    [][pc # "new" => (struct' = struct /\ (pc' # "failed" => struct' = StructOf(schemaIn)))]_vars

\* toBuffer has thrown for a record given to a layout that nests another,
\* and the layout is what the constructor compiled.
C17_Witness ==
    /\ Encoded
    /\ ~result.ok
    /\ NestedFields # {}
    /\ struct = StructOf(schemaIn)

-----------------------------------------------------------------------------
(* Buffers shorter than the layout.                                        *)

\* toObject has been given a buffer shorter than the layout.
Undersized == Decoded /\ Len(buffer) < struct.size

\* Every primitive (integer) field of a layout, at any depth, lies within
\* a buffer of len bytes; a nested layout is given the bytes of its range
\* that the buffer has.
RECURSIVE PrimitivesWithin(_, _)
PrimitivesWithin(this, len) ==
    \A i \in 1..Len(this.schema) :
        LET field == this.schema[i]
        IN  IF IsStruct(field.type)
            THEN PrimitivesWithin(field.type,
                                  Min(field.offset + field.size, len) - Min(field.offset, len))
            ELSE (~field.isBits /\ field.type.chars # cString) =>
                     field.offset + field.size <= len

\* C18 as stated: for every layout and every buffer shorter than the
\* layout's size toObject returns a record instead of raising an error.
C18_NoFailurePath == Undersized => result.ok

\* C18, amended: toObject checks no length itself; for a buffer shorter than
\* the layout it returns a record with every field name when every
\* primitive field lies within the buffer, and throws the RangeError of
\* the buffer's read method when one does not.
C18_UndersizedBuffer ==
    Undersized =>
        IF PrimitivesWithin(struct, Len(buffer))
        THEN result.ok /\ FullRecord(struct, result.value)
        ELSE ~result.ok /\ result.err = "RangeError"

\* toObject has thrown for a buffer that is not empty and ends before the
\* end of a primitive field.
C18_Witness ==
    /\ Undersized
    /\ buffer # <<>>
    /\ ~result.ok
    /\ result.err = "RangeError"

\* toObject has returned a record for a buffer that ends before a bitfield
\* or inside a text field.
C18_WitnessReturned ==
    /\ Undersized
    /\ result.ok
    /\ \E i \in 1..Len(struct.schema) :
          /\ ~IsStruct(struct.schema[i].type)
          /\ struct.schema[i].offset + 1 > Len(buffer)

-----------------------------------------------------------------------------
(* Calls side by side.                                                     *)

\* What a call returns or throws when it runs alone.
Alone(call) ==
    IF call.op = "toBuffer" THEN toBuffer(struct, call.data)
    ELSE toObject(struct, call.buffer)

\* C19: whatever the interleaving of the steps of several toBuffer and
\* toObject calls on one layout, each with its own input and its own
\* buffer, every call returns or throws what it does when it runs alone,
\* and the layout is not written.
C19_ConcurrentCalls ==
    /\ \A c \in 1..NumCalls : calls[c].st = "done" => calls[c].result = Alone(calls[c])
    /\ (\E c \in 1..NumCalls : calls[c].st # "idle") => struct = StructOf(schemaIn)

\* A toBuffer call of a record that omits fields has returned while
\* another toBuffer call, of a record that gives every field, is inside
\* its loop.
C19_Witness ==
    \E c, d \in 1..NumCalls :
        /\ calls[c].st = "done"
        /\ calls[c].op = "toBuffer"
        /\ calls[c].result.ok
        /\ DOMAIN calls[c].data.o # FieldNames(struct)
        /\ calls[d].st = "running"
        /\ calls[d].op = "toBuffer"
        /\ calls[d].i = 3
        /\ calls[d].buffer # alloc(struct.size)

-----------------------------------------------------------------------------
(* Bitfields decoded.                                                      *)

\* (B >> p) mod 2^w, and the signed integer its w bits are in two's
\* complement.
BitsOf(B, p, w) == (B \div Pow(2, p)) % Pow(2, w)

SignExtended(u, w) == IF u >= Pow(2, w - 1) THEN u - Pow(2, w) ELSE u

\* C20: for every byte B and every bitfield of width w at position p,
\* toObject yields u = (B >> p) mod 2^w for an unsigned field and, for a
\* signed field, u if u < 2^(w-1) and u - 2^w otherwise; a 4-bit signed
\* field encoded with -1 decodes to -1, not 15.
C20_BitfieldDecode ==
    Decoded =>
        /\ result.ok
        /\ \A i \in 1..Len(struct.schema) :
               LET field == struct.schema[i]
                   B == ByteAt(buffer, field.offset)
                   u == BitsOf(B, field.position, field.size)
               IN  /\ field.position + field.size <= 8
                   /\ result.value.o[field.name] =
                          Num(IF field.type.chars = cInt8 THEN SignExtended(u, field.size) ELSE u)
        /\ (RoundTrip /\ TokensIn = <<BitToken(cInt8, 4)>> /\ data = OnlyA(-1)) =>
               result.value = OnlyA(-1)

\* A byte has been decoded to a negative value of a signed bitfield that
\* is not at position 0 and does not reach the top of the byte.
C20_Witness ==
    /\ Decoded
    /\ result.ok
    /\ LastField.type.chars = cInt8
    /\ LastField.offset = 0
    /\ LastField.position > 0
    /\ LastField.position + LastField.size < 8
    /\ LastField.size > 1
    /\ result.value.o[LastField.name] = Num(-1)
    /\ buffer[1] = 255

-----------------------------------------------------------------------------
(* Bitfields written.                                                      *)

\* The bitfields of the layout that the record gives a value for.
GivenBitfields ==
    {i \in 1..Len(struct.schema) :
        /\ ~IsStruct(struct.schema[i].type)
        /\ struct.schema[i].isBits
        /\ HasKey(data, struct.schema[i].name)}

\* A buffer of the size of the layout with every bit set.
AllOnes == [i \in 1..struct.size |-> 255]

\* The bitfields of the record written to buf from field i down to the
\* first: the reverse of the order of toBuffer.
RECURSIVE WrittenBackwards(_, _)
WrittenBackwards(i, buf) ==
    IF i = 0 THEN buf
    ELSE IF i \in GivenBitfields
    THEN WrittenBackwards(i - 1,
             writeBitField(buf, struct.schema[i], ValueOf(data, struct.schema[i].name)).buffer)
    ELSE WrittenBackwards(i - 1, buf)

\* C21: writing an in-range value v to a bitfield of width w at position p
\* leaves v mod 2^w in the bits [p, p + w) of the byte at its offset and
\* changes no other bit of that byte and no other byte of the buffer;
\* bitfields packed in one byte all keep their values, whatever the order
\* they are written in.
C21_BitfieldMerge ==
    (Encoded /\ result.ok) =>
        /\ \A i \in GivenBitfields :
               LET field == struct.schema[i]
                   value == ValueOf(data, field.name)
                   v == SmallInt(value.n)
                   Held(buf) == BitsOf(ByteAt(buf, field.offset), field.position, field.size)
               IN  /\ Held(result.buffer) = v % Pow(2, field.size)
                   /\ \A before \in {alloc(struct.size), AllOnes, result.buffer} :
                          LET written == writeBitField(before, field, value)
                          IN  /\ written.ok
                              /\ Held(written.buffer) = v % Pow(2, field.size)
                              /\ ZeroSpan(written.buffer, field) = ZeroSpan(before, field)
        /\ (\A i \in 1..Len(struct.schema) : i \in GivenBitfields \/ ~HasKey(data, struct.schema[i].name))
               => WrittenBackwards(Len(struct.schema), alloc(struct.size)) = result.buffer

\* A negative value has been written to a signed bitfield that shares its
\* byte with a bitfield written before it with every bit set.
C21_Witness ==
    /\ Encoded
    /\ result.ok
    /\ Len(struct.schema) = 2
    /\ GivenBitfields = {1, 2}
    /\ struct.schema[2].offset = struct.schema[1].offset
    /\ struct.schema[2].type.chars = cInt8
    /\ struct.schema[2].size > 1
    /\ ValueOf(data, struct.schema[2].name) = Num(-1)
    /\ ValueOf(data, struct.schema[1].name) = Num(maxBitValue(struct.schema[1]))

\* The record with only the entries of the fields before field i of the
\* layout.
Before(record, i) ==
    Obj([n \in DOMAIN record.o \cap {struct.schema[j].name : j \in 1..(i - 1)} |-> record.o[n]])

\* toBuffer has thrown the RangeError of the range check for a bitfield of
\* the layout itself.
RejectedField ==
    /\ BitfieldRejected
    /\ ~IsStruct(struct.schema[FirstRejected].type)
    /\ struct.schema[FirstRejected].isBits

\* C22: when toBuffer fails with RangeError on bitfield f, the buffer is as
\* the fields before f in schema order wrote it: they have been written,
\* f has changed nothing, the byte at its offset included, no field after f
\* is written, and no buffer is returned.
C22_RangeCheckFirst ==
    RejectedField =>
        LET f == struct.schema[FirstRejected]
            earlier == toBuffer(struct, Before(data, FirstRejected))
        IN  /\ earlier.ok
            /\ result.partial = earlier.buffer
            /\ ByteAt(result.partial, f.offset) = ByteAt(earlier.buffer, f.offset)
            /\ "buffer" \notin DOMAIN result
            /\ buffer = <<>>

\* toBuffer has rejected the value of a bitfield that shares its byte with
\* a bitfield written before it, and is followed by a field the record
\* gives a value for.
C22_Witness ==
    /\ RejectedField
    /\ FirstRejected > 1
    /\ FirstRejected < Len(struct.schema)
    /\ struct.schema[FirstRejected - 1].offset = struct.schema[FirstRejected].offset
    /\ ByteAt(result.partial, struct.schema[FirstRejected].offset) # 0
    /\ HasKey(data, struct.schema[FirstRejected + 1].name)
    /\ ValueOf(data, struct.schema[FirstRejected + 1].name) # Num(0)

-----------------------------------------------------------------------------
(* Text fields.                                                            *)

\* The text fields of the layout.
TextFields ==
    {i \in 1..Len(struct.schema) :
        /\ ~IsStruct(struct.schema[i].type)
        /\ ~struct.schema[i].isBits
        /\ struct.schema[i].type.chars = cString}

\* Bytes followed by zeros up to n bytes.
ZeroPadded(bytes, n) == [i \in 1..n |-> IF i <= Len(bytes) THEN bytes[i] ELSE 0]

\* toBuffer has returned for a record that gives a string for text field i.
TextWritten(i) ==
    /\ Encoded
    /\ result.ok
    /\ i \in TextFields
    /\ HasKey(data, struct.schema[i].name)

\* C23 as stated: toBuffer writes the first min(|s|, n) bytes of the
\* encoding s of the string at the offset of the field, leaves the rest of
\* the field zero and writes nothing at or beyond offset + n.
C23_TextCutAtBytes ==
    \A i \in IF Encoded THEN TextFields ELSE {} :
        TextWritten(i) =>
            LET field == struct.schema[i]
                s == Utf8Encode(ValueOf(data, field.name).s)
            IN  /\ Slice(result.buffer, field)
                       = ZeroPadded(SubSeq(s, 1, Min(Len(s), field.size)), field.size)
                /\ ZeroSpan(result.buffer, field)
                       = toBuffer(struct, Without(data, field.name)).buffer

\* C23, amended: toBuffer writes, at the offset of the field, the encoding
\* of the longest run of whole characters from the start of the string
\* that fits in n bytes (a character whose bytes would pass offset + n is
\* not written, nor is any after it), leaves the rest of the field zero
\* and writes nothing at or beyond offset + n.
C23_TextEncode ==
    \A i \in IF Encoded THEN TextFields ELSE {} :
        TextWritten(i) =>
            LET field == struct.schema[i]
                text == ValueOf(data, field.name).s
                Fits(k) == Len(Utf8Encode(SubSeq(text, 1, k))) <= field.size
                kept == CHOOSE k \in 0..Len(text) :
                            Fits(k) /\ (k = Len(text) \/ ~Fits(k + 1))
            IN  /\ Slice(result.buffer, field)
                       = ZeroPadded(Utf8Encode(SubSeq(text, 1, kept)), field.size)
                /\ ZeroSpan(result.buffer, field)
                       = toBuffer(struct, Without(data, field.name)).buffer

\* A string whose character of two bytes falls across the end of the
\* field has been written before a field the record gives a value for.
C23_Witness ==
    \E i \in IF Encoded THEN TextFields ELSE {} :
        /\ TextWritten(i)
        /\ i < Len(struct.schema)
        /\ HasKey(data, struct.schema[i + 1].name)
        /\ LET text == ValueOf(data, struct.schema[i].name).s
               n == struct.schema[i].size
           IN  /\ Len(Utf8Encode(text)) > n
               /\ \E k \in 1..Len(text) :
                     /\ Len(Utf8Encode(SubSeq(text, 1, k - 1))) < n
                     /\ Len(Utf8Encode(SubSeq(text, 1, k))) > n

\* The bytes up to the last one that is not zero.
RECURSIVE WithoutTrailingZeros(_)
WithoutTrailingZeros(bytes) ==
    IF bytes # <<>> /\ bytes[Len(bytes)] = 0
    THEN WithoutTrailingZeros(SubSeq(bytes, 1, Len(bytes) - 1))
    ELSE bytes

\* The number of NUL characters (or zero bytes) of a sequence.
Zeros(seq) == Cardinality({j \in 1..Len(seq) : seq[j] = 0})

\* C24: toObject reads exactly the size bytes of a text field and removes
\* only the trailing run of NUL bytes: a NUL followed by a byte that is not
\* NUL inside the field is kept, and a field of NUL bytes only decodes to
\* the empty string.
C24_TextDecode ==
    \A i \in IF Decoded /\ result.ok /\ Len(buffer) >= struct.size THEN TextFields ELSE {} :
        LET field == struct.schema[i]
            bytes == Slice(buffer, field)
            text == ValueOf(result.value, field.name)
        IN  /\ text.k = "string"
            /\ text.s = Utf8Decode(WithoutTrailingZeros(bytes))
            /\ Zeros(text.s) = Zeros(WithoutTrailingZeros(bytes))
            /\ bytes = alloc(field.size) => text.s = <<>>

\* A text field whose bytes are a NUL, a byte that is not NUL and a NUL
\* has been decoded.
C24_Witness ==
    \E i \in IF Decoded /\ result.ok /\ Len(buffer) >= struct.size THEN TextFields ELSE {} :
        LET bytes == Slice(buffer, struct.schema[i])
        IN  /\ Len(bytes) = 3
            /\ bytes[1] = 0
            /\ bytes[2] # 0
            /\ bytes[3] = 0
            /\ Len(ValueOf(result.value, struct.schema[i].name).s) = 2

-----------------------------------------------------------------------------
(* Nested layouts and bounds of the compiled layout.                       *)

\* C25: the field compiled for a nested layout has isBits false and the
\* total size of the nested layout, the byte of the bitfields at its end
\* included, and a bitfield declared right after it starts at position 0
\* of the byte at offset + size.
C25_NestedOpaque ==
    Compiled =>
        \A i \in EntryIndexes :
            IsStruct(Entries[i].type) =>
                /\ Entries[i].isBits = FALSE
                /\ Entries[i].type = schemaIn[i].type
                /\ Entries[i].size = schemaIn[i].type.size
                /\ Entries[i].size
                       = SumOf(ByteSizes(schemaIn[i].type.schema))
                             + Cardinality({e.offset : e \in
                                   {schemaIn[i].type.schema[j] :
                                       j \in {k \in 1..Len(schemaIn[i].type.schema) :
                                                 schemaIn[i].type.schema[k].isBits}}})
                /\ (i < Len(Entries) /\ Entries[i + 1].isBits) =>
                       /\ Entries[i + 1].offset = Entries[i].offset + Entries[i].size
                       /\ Entries[i + 1].position = 0

\* A layout with a bitfield, a nested layout that ends with a partly
\* filled bitfield byte, and a bitfield has been compiled.
C25_Witness ==
    /\ Compiled
    /\ Len(Entries) = 3
    /\ Entries[1].isBits
    /\ IsStruct(Entries[2].type)
    /\ Entries[2].type.schema[Len(Entries[2].type.schema)].isBits
    /\ Entries[3].isBits
    /\ Entries[3].offset = 3

\* The bytes a field takes in the buffer: its size, or the one byte of a
\* bitfield.
BytesTaken(entry) == IF entry.isBits THEN 1 ELSE entry.size

\* C26: every field of a layout compiled from well-formed tokens lies
\* inside the layout: 0 <= offset and offset + (size for a field that is
\* not a bitfield, 1 for a bitfield) <= size of the layout, and offsets do
\* not decrease in the order of the schema.
C26_FieldsInsideLayout ==
    Compiled =>
        /\ \A i \in EntryIndexes :
               /\ 0 <= Entries[i].offset
               /\ Entries[i].offset + BytesTaken(Entries[i]) <= struct.size
        /\ \A i, j \in EntryIndexes : i < j => Entries[i].offset <= Entries[j].offset

\* A layout that ends with a bitfield in the last byte, after a field of
\* several bytes and a bitfield that share no byte, has been compiled.
C26_Witness ==
    /\ Compiled
    /\ Len(Entries) = 3
    /\ Entries[1].isBits
    /\ ~Entries[2].isBits
    /\ Entries[2].size > 1
    /\ Entries[3].isBits
    /\ Entries[3].offset = struct.size - 1
    /\ Entries[2].offset + Entries[2].size = Entries[3].offset

-----------------------------------------------------------------------------
(* Buffers encoded again.                                                  *)

\* The bits of the byte at an offset that the bitfields of a layout cover,
\* as a mask.
CoveredBits(this, offset) ==
    SumOf([i \in 1..Len(this.schema) |->
              IF ~IsStruct(this.schema[i].type) /\ this.schema[i].isBits
                 /\ this.schema[i].offset = offset
              THEN Shl(Pow(2, this.schema[i].size) - 1, this.schema[i].position)
              ELSE 0])

\* The bits of the bytes of a buffer that hold bitfields of the layout and
\* are covered by none of them are zero, in nested layouts too.
RECURSIVE SpareBitsZero(_, _)
SpareBitsZero(this, buf) ==
    \A i \in 1..Len(this.schema) :
        LET field == this.schema[i]
        IN  IF IsStruct(field.type)
            THEN SpareBitsZero(field.type, subarray(buf, field.offset, field.offset + field.size))
            ELSE field.isBits =>
                     BitAnd(ByteAt(buf, field.offset),
                            255 - CoveredBits(this, field.offset)) = 0

\* C27: for every buffer b that toBuffer returns, also for a record that
\* omits fields, toBuffer(toObject(b)) = b, and the bits of a bitfield byte
\* that no bitfield covers are zero in b.
C27_CanonicalReencoding ==
    /\ (Encoded /\ result.ok) => SpareBitsZero(struct, result.buffer)
    /\ RoundTrip =>
           /\ result.ok
           /\ toBuffer(struct, result.value).ok
           /\ toBuffer(struct, result.value).buffer = buffer

\* The buffer of a record that omits a field, for a layout with a bitfield
\* byte that is not full, has been decoded.
C27_Witness ==
    /\ RoundTrip
    /\ result.ok
    /\ DOMAIN data.o # FieldNames(struct)
    /\ DOMAIN data.o # {}
    /\ \E i \in 1..Len(struct.schema) :
          /\ ~IsStruct(struct.schema[i].type)
          /\ struct.schema[i].isBits
          /\ CoveredBits(struct, struct.schema[i].offset) # 255
          /\ ByteAt(buffer, struct.schema[i].offset) # 0

\* C28: whatever the bytes of the buffer, the value toObject returns for a
\* bitfield of width w is in 0 .. 2^w - 1 if the field is unsigned and in
\* -2^(w-1) .. 2^(w-1) - 1 if it is signed, and validateBitfieldValue
\* accepts it when it is encoded again.
C28_DecodedBitfieldInRange ==
    (Decoded /\ result.ok) =>
        \A i \in 1..Len(struct.schema) :
            LET field == struct.schema[i]
                value == ValueOf(result.value, field.name)
            IN  (~IsStruct(field.type) /\ field.isBits) =>
                    /\ value.k = "number"
                    /\ ~IsNaN(value)
                    /\ IsSmall(value.n)
                    /\ InBitRange(field.size, field.type.chars = cInt8, SmallInt(value.n))
                    /\ validateBitfieldValue(field, value).ok
                    /\ writeBitField(buffer, field, value).ok

\* The least value of a signed bitfield of more than one bit has been
\* decoded from a byte with other bits set.
C28_Witness ==
    /\ Decoded
    /\ result.ok
    /\ LastField.isBits
    /\ LastField.type.chars = cInt8
    /\ LastField.size \in 2..7
    /\ ValueOf(result.value, LastField.name) = Num(minBitValue(LastField))
    /\ ByteAt(buffer, LastField.offset) > Pow(2, LastField.position + LastField.size)

\* What applyBitmask returns: the bits of the field hold the value, and
\* every other bit of the byte is the bit of currentByte.
C29_ClearsThenSets ==
    pc = "masked" =>
        LET low == Pow(2, struct.position)
            span == Pow(2, struct.size)
        IN  /\ result \in 0..255
            /\ (result \div low) % span = data
            /\ result % low = buffer[1] % low
            /\ result \div (low * span) = buffer[1] \div (low * span)

\* The call of the example in the documentation of applyBitmask.
DocumentedExample ==
    /\ pc = "masked"
    /\ buffer = <<213>>
    /\ struct = [size |-> 4, position |-> 4]
    /\ data = 10

\* C29: with currentByte = 0b11010101, a field of size 4, value = 0b1010
\* and bitPosition = 4, applyBitmask returns 0b11011010.
C29_DocumentedExample == DocumentedExample => result = 218

\* The byte the code returns for the documented call: 0b10100101.
C29_ExampleResult == DocumentedExample => result = 165

\* The documented byte is the result of the same call at bitPosition 0.
C29_ExampleAtPositionZero ==
    (/\ pc = "masked"
     /\ buffer = <<213>>
     /\ struct = [size |-> 4, position |-> 0]
     /\ data = 10) => result = 218

====
